---- MODULE Spec2Model ----
(***************************************************************************)
(* Model of the paper-trading engine: RiskManager (the portfolio ledger,   *)
(* sizing, rebalance planning), TradingEngine (scheduler, tick pipeline,   *)
(* trade executor, trade log), ExchangeConnector (market-data cache) and   *)
(* AlertManager.                                                           *)
(*                                                                         *)
(* Numbers of the program are JavaScript doubles.  They are modelled as    *)
(* exact rationals <<n, d>> (d > 0, lowest terms), so every formula of the *)
(* code is computed as written and without rounding.  Money (balance,      *)
(* prices, pnl) is counted in units of 1000 dollars: 100 is the code's     *)
(* 100000.  Amounts are in coins, fractions and percentages as they are.   *)
(***************************************************************************)
EXTENDS Integers, Sequences, FiniteSets, TLC

(***************************************************************************)
(* Bounds of the model (not program constants).                            *)
(***************************************************************************)
\* calls of start(), stop() and toggleStatus() in one behaviour
MaxCalls == 2
\* ticks begun by the interval timers in one behaviour
MaxTicks == 3
\* fetches awaiting the exchange's answer at the same time
MaxInFlight == 2
\* signals of one behaviour that pass the confidence filter
MaxSignals == 1
\* trade attempts of one behaviour filled with a non-zero slippage
MaxSlips == 1
\* room left in the trade log when the modelled run begins with a long log
MaxOldLogs == 2
\* the first attempts of a tick that may be filled with a non-zero slippage
MaxSlipAt == 1
\* operations in one behaviour of the ledger called directly
MaxOps == 3
\* signals sized and executed in one behaviour of the sizing runs
MaxSized == 2
\* broadcasts of one behaviour that throw
MaxFails == 1
\* subscribers attached at one time
MaxClients == 2
\* entries of the log beyond the last 100, and alerts beyond the last 20, when
\* the modelled run begins with a long feed
MaxBeyond == 2
\* numerators and denominators of the model's numbers are at most this
Precision == 1000000000

(***************************************************************************)
(* Exact rational arithmetic.  A result whose numerator or denominator     *)
(* would exceed Precision is Lost; every operation on a Lost number is     *)
(* Lost, and a tick that meets a Lost number is not followed (ExactRun).   *)
(***************************************************************************)
Abs(x) == IF x < 0 THEN -x ELSE x

RECURSIVE Gcd(_, _)
Gcd(a, b) == IF b = 0 THEN a ELSE Gcd(b, a % b)

Lost == <<1, 0>>
IsLost(a) == a[2] = 0

\* x * y is beyond Precision
Over(x, y) == x # 0 /\ y # 0 /\ Abs(x) > Precision \div Abs(y)

\* n / d in lowest terms, g the greatest common divisor of n and d, d # 0
Reduced(n, d, g) ==
  IF Abs(n) \div g > Precision \/ Abs(d) \div g > Precision THEN Lost
  ELSE IF d < 0 THEN <<(0 - n) \div g, (0 - d) \div g>>
  ELSE <<n \div g, d \div g>>

Rat(n, d) == Reduced(n, d, Gcd(Abs(n), Abs(d)))

R(n) == <<n, 1>>
Zero == <<0, 1>>

RNeg(a) == IF IsLost(a) THEN Lost ELSE <<-a[1], a[2]>>
RAbs(a) == IF IsLost(a) THEN Lost ELSE <<Abs(a[1]), a[2]>>

\* a + b over the least common denominator: x = lcm / a[2], y = lcm / b[2]
Added(a, b, x, y) ==
  IF Over(a[1], x) \/ Over(b[1], y) \/ Over(x, a[2]) THEN Lost
  ELSE Rat(a[1] * x + b[1] * y, x * a[2])

RAdd(a, b) ==
  IF IsLost(a) \/ IsLost(b) THEN Lost
  ELSE Added(a, b, b[2] \div Gcd(a[2], b[2]), a[2] \div Gcd(a[2], b[2]))

RSub(a, b) == RAdd(a, RNeg(b))

\* (n1 / d1) * (n2 / d2), the common factors cancelled
Multiplied(n1, n2, d1, d2) ==
  IF Over(n1, n2) \/ Over(d1, d2) THEN Lost
  ELSE <<n1 * n2, d1 * d2>>

RMul(a, b) ==
  IF IsLost(a) \/ IsLost(b) THEN Lost
  ELSE Multiplied(a[1] \div Gcd(Abs(a[1]), b[2]), b[1] \div Gcd(Abs(b[1]), a[2]),
                  a[2] \div Gcd(Abs(b[1]), a[2]), b[2] \div Gcd(Abs(a[1]), b[2]))

\* a / b, b # 0 (a division by 0 stops the evaluation)
RDiv(a, b) ==
  IF IsLost(a) \/ IsLost(b) THEN Lost
  ELSE IF b[1] = 0 THEN <<1 \div b[1], 1>>
  ELSE RMul(a, IF b[1] < 0 THEN <<-b[2], -b[1]>> ELSE <<b[2], b[1]>>)

\* n1/d1 < n2/d2 for d1, d2 > 0, by the integer parts and then the remainders
RECURSIVE Less(_, _, _, _)
Less(n1, d1, n2, d2) ==
  IF n1 \div d1 # n2 \div d2 THEN n1 \div d1 < n2 \div d2
  ELSE IF n1 % d1 = 0 \/ n2 % d2 = 0 THEN n1 % d1 = 0 /\ n2 % d2 # 0
  ELSE Less(d2, n2 % d2, d1, n1 % d1)

\* comparisons are taken on numbers that are not Lost
RLt(a, b) == ~IsLost(a) /\ ~IsLost(b) /\ Less(a[1], a[2], b[1], b[2])
RLe(a, b) == ~RLt(b, a)
RGt(a, b) == RLt(b, a)
RGe(a, b) == ~RLt(a, b)
RMax(a, b) == IF IsLost(a) \/ IsLost(b) THEN Lost ELSE IF RLt(a, b) THEN b ELSE a

(***************************************************************************)
(* Program constants.                                                      *)
(***************************************************************************)
\* ExchangeConnector.pairs, in the order of the array
Pairs == <<"BTC/USDT", "ETH/USDT", "SOL/USDT", "ADA/USDT", "XRP/USDT">>
PairSet == {Pairs[i] : i \in 1..Len(Pairs)}
\* a pair the exchange does not quote; the ledger takes any pair as a key
OtherPair == "DOGE/USDT"
\* the keys of RiskManager.portfolio.positions
LedgerKeys == Append(Pairs, OtherPair)
LedgerPairs == PairSet \cup {OtherPair}

\* 100000 dollars
InitialBalance == 100
\* percentages of RiskManager.targetAllocations
TargetPct ==
  [p \in PairSet |->
     CASE p = "BTC/USDT" -> Rat(30, 100)
       [] p = "ETH/USDT" -> Rat(25, 100)
       [] OTHER -> Rat(15, 100)]
maxDrawdownLimit == Rat(10, 100)
stopLossLimit == Rat(2, 100)
maxPositionSize == Rat(15, 100)
minPairs == 5
\* risk 1% per trade
RiskPerTrade == Rat(1, 100)
\* drawdown warning at 0.8 of the limit
WarnFactor == Rat(8, 10)
\* rebalance when the deviation exceeds 5%
RebalanceThreshold == Rat(5, 100)
\* a position at or below this amount is deleted
Epsilon == Rat(1, 1000000)
\* fallback price of a pair with no data yet: 50000 dollars
FallbackPrice == 50
MaxLogs == 1000
MaxAlerts == 100

(***************************************************************************)
(* AlertManager.                                                           *)
(***************************************************************************)
\* sendAlert: append, then drop the oldest beyond the last 100
sendAlert(alerts, type, severity) ==
  IF Len(alerts) + 1 > MaxAlerts
  THEN Tail(Append(alerts, [type |-> type, severity |-> severity]))
  ELSE Append(alerts, [type |-> type, severity |-> severity])

(***************************************************************************)
(* RiskManager: the portfolio ledger.                                      *)
(***************************************************************************)
\* positions[pair] is undefined: no entry for the pair
NoPosition == [held |-> FALSE, amount |-> Zero, avgEntryPrice |-> Zero]
NoPositions == [p \in LedgerPairs |-> NoPosition]
\* Object.keys(positions)
Held(pf) == {p \in DOMAIN pf.positions : pf.positions[p].held}

InitPortfolio ==
  [balance |-> R(InitialBalance),
   initialBalance |-> R(InitialBalance),
   positions |-> NoPositions,
   pnl |-> Zero,
   drawdown |-> Zero,
   maxDrawdown |-> Zero,
   winRate |-> Zero,
   sharpeRatio |-> Rat(3, 2),
   totalTrades |-> 0,
   winningTrades |-> 0,
   targetAllocations |-> TargetPct]

\* marketData[pair] && marketData[pair].last
HasPrice(md, pair) == pair \in DOMAIN md.last /\ md.last[pair] # 0

\* balance plus the value of the held positions that have a price
RECURSIVE EquityFrom(_, _, _)
EquityFrom(pf, md, i) ==
  IF i > Len(LedgerKeys) THEN pf.balance
  ELSE IF pf.positions[LedgerKeys[i]].held /\ HasPrice(md, LedgerKeys[i])
       THEN RAdd(EquityFrom(pf, md, i + 1),
                 RMul(pf.positions[LedgerKeys[i]].amount, R(md.last[LedgerKeys[i]])))
       ELSE EquityFrom(pf, md, i + 1)
CurrentEquity(pf, md) == EquityFrom(pf, md, 1)

\* (peakEquity - currentEquity) / peakEquity
DrawdownFrom(peakEquity, currentEquity) ==
  RDiv(RSub(peakEquity, currentEquity), peakEquity)

\* a drawdown measured from the initial balance, whatever the equity
DrawdownOfInitial(pf, currentEquity) ==
  DrawdownFrom(pf.initialBalance, currentEquity)
\* the drawdown of one valuation
DrawdownOf(pf, currentEquity) ==
  DrawdownFrom(RMax(pf.initialBalance, currentEquity), currentEquity)

\* a maxDrawdown that follows the drawdown of the latest valuation
MaxDrawdownOfLatest(pf, dd) == dd
\* the new maxDrawdown after a valuation that found drawdown dd
MaxDrawdownOf(pf, dd) == IF RGt(dd, pf.maxDrawdown) THEN dd ELSE pf.maxDrawdown

\* a valuation that keeps a high-water mark: initialBalance follows the peak
\* equity
ValuedHighWater(pf, currentEquity) ==
  [pf EXCEPT !.drawdown = DrawdownOf(pf, currentEquity),
             !.maxDrawdown = MaxDrawdownOf(pf, DrawdownOf(pf, currentEquity)),
             !.pnl = RSub(currentEquity, pf.initialBalance),
             !.initialBalance = RMax(pf.initialBalance, currentEquity)]
\* updatePrices once currentEquity is summed up
Valued(pf, currentEquity) ==
  [pf EXCEPT !.drawdown = DrawdownOf(pf, currentEquity),
             !.maxDrawdown = MaxDrawdownOf(pf, DrawdownOf(pf, currentEquity)),
             !.pnl = RSub(currentEquity, pf.initialBalance)]

\* updatePrices: the ledger after the valuation
updatePrices(pf, md) == Valued(pf, CurrentEquity(pf, md))

\* a valuation that does not repeat the warning it gave last
updatePricesAlertsOnce(pf, alerts) ==
  IF /\ RGe(pf.drawdown, RMul(maxDrawdownLimit, WarnFactor))
     /\ \/ alerts = <<>>
        \/ alerts[Len(alerts)] # [type |-> "RISK", severity |-> "WARNING"]
  THEN sendAlert(alerts, "RISK", "WARNING")
  ELSE alerts
\* updatePrices: the alert of the valuation (pf is the ledger after it)
updatePricesAlerts(pf, alerts) ==
  IF RGe(pf.drawdown, RMul(maxDrawdownLimit, WarnFactor))
  THEN sendAlert(alerts, "RISK", "WARNING")
  ELSE alerts

shouldShutdown(pf) == RGe(pf.drawdown, maxDrawdownLimit)

\* calculatePositionSize: the cap of positionSize at maxAllowedValue
Capped(positionSize, maxAllowedValue, price) ==
  IF IsLost(RMul(positionSize, R(price))) \/ IsLost(maxAllowedValue) THEN Lost
  ELSE IF RGt(RMul(positionSize, R(price)), maxAllowedValue)
       THEN RDiv(maxAllowedValue, R(price))
       ELSE positionSize

\* a throttle that halves the size also for a pair that is held
DiversifiedAlways(pf, pair, positionSize) ==
  IF Cardinality(Held(pf)) >= minPairs
  THEN RMul(positionSize, Rat(1, 2))
  ELSE positionSize
\* calculatePositionSize: half the size for a new pair beside minPairs held ones
Diversified(pf, pair, positionSize) ==
  IF Cardinality(Held(pf)) >= minPairs /\ ~pf.positions[pair].held
  THEN RMul(positionSize, Rat(1, 2))
  ELSE positionSize

calculatePositionSize(pf, pair, price) ==
  Diversified(pf, pair,
    Capped(RDiv(RMul(pf.balance, RiskPerTrade), RMul(R(price), stopLossLimit)),
           RMul(pf.balance, maxPositionSize), price))

\* a ledger that never refuses a BUY
InsufficientFundsNever(pf, value) == FALSE
\* the guards of RiskManager.executeTrade
InsufficientFunds(pf, value) == RLt(pf.balance, value)
\* a guard that only asks for a position entry
InsufficientPositionNoEntry(pf, pair, amount) == ~pf.positions[pair].held
InsufficientPosition(pf, pair, amount) ==
  \/ ~pf.positions[pair].held
  \/ RLt(pf.positions[pair].amount, amount)

\* a position that takes the average of the old entry price and the fill price
BoughtAtMean(pos, price, amount) ==
  [held |-> TRUE,
   amount |-> RAdd(pos.amount, amount),
   avgEntryPrice |-> IF pos.amount = Zero THEN price
                     ELSE RDiv(RAdd(pos.avgEntryPrice, price), R(2))]
\* the position pos after a BUY fill is added to it
Bought(pos, price, amount) ==
  [held |-> TRUE,
   amount |-> RAdd(pos.amount, amount),
   avgEntryPrice |->
     RDiv(RAdd(RMul(pos.amount, pos.avgEntryPrice), RMul(price, amount)),
          RAdd(pos.amount, amount))]

\* the position after a BUY fill: a missing entry is created empty first
BuyPosition(pf, pair, price, amount) ==
  Bought(IF pf.positions[pair].held THEN pf.positions[pair]
         ELSE [held |-> TRUE, amount |-> Zero, avgEntryPrice |-> Zero],
         price, amount)

\* the win statistics with the counters at wins and total
Counted(pf, wins, total) ==
  [pf EXCEPT !.winningTrades = wins,
             !.totalTrades = total,
             !.winRate = RMul(Rat(wins, total), R(100)),
             !.sharpeRatio =
               RAdd(Rat(3, 2),
                    RMul(RSub(RMul(Rat(wins, total), R(100)), R(50)), Rat(5, 100)))]

\* win statistics that count a SELL at break-even as a win
SellStatsBreakEven(pf, pnl) ==
  Counted(pf, IF RGe(pnl, Zero) THEN pf.winningTrades + 1 ELSE pf.winningTrades,
          pf.totalTrades + 1)
\* the win statistics after a SELL with realized pnl
SellStats(pf, pnl) ==
  Counted(pf, IF RGt(pnl, Zero) THEN pf.winningTrades + 1 ELSE pf.winningTrades,
          pf.totalTrades + 1)

\* the positions with `left` of the pair: the entry is deleted at or below epsilon
Remaining(pf, pair, left) ==
  IF ~IsLost(left) /\ RLe(left, Epsilon)
  THEN [pf.positions EXCEPT ![pair] = NoPosition]
  ELSE [pf.positions EXCEPT ![pair].amount = left]

\* the positions after a SELL fill
SellPositions(pf, pair, amount) ==
  Remaining(pf, pair, RSub(pf.positions[pair].amount, amount))

\* a SELL fill that sets the entry price of what is left to the sale price
SoldRepriced(pf, pair, amount, value, pnl) ==
  [SellStats([pf EXCEPT !.balance = RAdd(pf.balance, value),
                        !.pnl = RAdd(pf.pnl, pnl)], pnl)
     EXCEPT !.positions =
       IF SellPositions(pf, pair, amount)[pair].held
       THEN [SellPositions(pf, pair, amount)
               EXCEPT ![pair].avgEntryPrice = RDiv(value, amount)]
       ELSE SellPositions(pf, pair, amount)]
\* the ledger after a SELL fill of the given value and realized pnl
Sold(pf, pair, amount, value, pnl) ==
  [SellStats([pf EXCEPT !.balance = RAdd(pf.balance, value),
                        !.pnl = RAdd(pf.pnl, pnl)], pnl)
     EXCEPT !.positions = SellPositions(pf, pair, amount)]

\* an executeTrade whose BUY debits the balance and leaves the position as it was
TradedDebitOnly(pf, pair, type, price, amount, value) ==
  IF IsLost(value) THEN [ok |-> FALSE, pf |-> [pf EXCEPT !.balance = Lost]]
  ELSE IF type = "BUY"
  THEN IF InsufficientFunds(pf, value)
       THEN [ok |-> FALSE, pf |-> pf]
       ELSE [ok |-> TRUE,
             pf |-> [pf EXCEPT !.balance = RSub(pf.balance, value)]]
  ELSE IF InsufficientPosition(pf, pair, amount)
       THEN [ok |-> FALSE, pf |-> pf]
       ELSE [ok |-> TRUE,
             pf |-> Sold(pf, pair, amount, value,
                         RMul(RSub(price, pf.positions[pair].avgEntryPrice), amount))]
\* RiskManager.executeTrade with value = price * amount: [ok, pf]
Traded(pf, pair, type, price, amount, value) ==
  IF IsLost(value) THEN [ok |-> FALSE, pf |-> [pf EXCEPT !.balance = Lost]]
  ELSE IF type = "BUY"
  THEN IF InsufficientFunds(pf, value)
       THEN [ok |-> FALSE, pf |-> pf]
       ELSE [ok |-> TRUE,
             pf |-> [pf EXCEPT
               !.balance = RSub(pf.balance, value),
               !.positions[pair] = BuyPosition(pf, pair, price, amount)]]
  ELSE IF InsufficientPosition(pf, pair, amount)
       THEN [ok |-> FALSE, pf |-> pf]
       ELSE [ok |-> TRUE,
             pf |-> Sold(pf, pair, amount, value,
                         RMul(RSub(price, pf.positions[pair].avgEntryPrice), amount))]

\* RiskManager.executeTrade: [ok, pf]
RM_executeTrade(pf, pair, type, price, amount) ==
  Traded(pf, pair, type, price, amount, RMul(price, amount))

calculateTradePnL(pf, pair, sellPrice, amount) ==
  IF ~pf.positions[pair].held THEN Zero
  ELSE RMul(RSub(sellPrice, pf.positions[pair].avgEntryPrice), amount)

\* deviation > 0.05, with deviation = |diff| / currentEquity as doubles give
\* it: NaN for 0 / 0 (no test passes), Infinity for x / 0
Deviates(diff, currentEquity) ==
  IF currentEquity = Zero THEN diff # Zero
  ELSE RGt(RDiv(RAbs(diff), currentEquity), RebalanceThreshold)

\* a plan whose SELL orders are for more than is held
RebalanceOrderOversold(pf, pair, currentPrice, currentEquity, diff) ==
  IF IsLost(diff) \/ (currentEquity # Zero /\ IsLost(RDiv(RAbs(diff), currentEquity)))
  THEN <<[pair |-> pair, action |-> "BUY", amount |-> Lost, price |-> currentPrice]>>
  ELSE IF ~Deviates(diff, currentEquity) THEN <<>>
  ELSE IF RGt(diff, Zero)
       THEN <<[pair |-> pair, action |-> "SELL",
               amount |-> RDiv(RAdd(diff, currentEquity), R(currentPrice)),
               price |-> currentPrice]>>
  ELSE IF RGe(pf.balance, RNeg(diff))
       THEN <<[pair |-> pair, action |-> "BUY",
               amount |-> RDiv(RNeg(diff), R(currentPrice)), price |-> currentPrice]>>
  ELSE <<>>
\* a plan that does not ask whether the balance covers a BUY
RebalanceOrderUnfunded(pf, pair, currentPrice, currentEquity, diff) ==
  IF IsLost(diff) \/ (currentEquity # Zero /\ IsLost(RDiv(RAbs(diff), currentEquity)))
  THEN <<[pair |-> pair, action |-> "BUY", amount |-> Lost, price |-> currentPrice]>>
  ELSE IF ~Deviates(diff, currentEquity) THEN <<>>
  ELSE <<[pair |-> pair, action |-> IF RGt(diff, Zero) THEN "SELL" ELSE "BUY",
          amount |-> RDiv(RAbs(diff), R(currentPrice)), price |-> currentPrice]>>
\* checkRebalance: the orders (none or one) for a pair that has a price
RebalanceOrder(pf, pair, currentPrice, currentEquity, diff) ==
  IF IsLost(diff) \/ (currentEquity # Zero /\ IsLost(RDiv(RAbs(diff), currentEquity)))
  THEN <<[pair |-> pair, action |-> "BUY", amount |-> Lost, price |-> currentPrice]>>
  ELSE IF ~Deviates(diff, currentEquity) THEN <<>>
  ELSE IF RGt(diff, Zero)   \* currentValue > targetValue
       THEN <<[pair |-> pair, action |-> "SELL",
               amount |-> RDiv(diff, R(currentPrice)), price |-> currentPrice]>>
  ELSE IF RGe(pf.balance, RNeg(diff))
       THEN <<[pair |-> pair, action |-> "BUY",
               amount |-> RDiv(RNeg(diff), R(currentPrice)), price |-> currentPrice]>>
  ELSE <<>>

\* currentValue - targetValue of a pair
ValueDiff(pf, md, currentEquity, pair) ==
  RSub(IF pf.positions[pair].held
       THEN RMul(pf.positions[pair].amount, R(md.last[pair]))
       ELSE Zero,
       RMul(currentEquity, pf.targetAllocations[pair]))

\* checkRebalance: the orders for the target pairs from index i on
RECURSIVE RebalanceFrom(_, _, _, _)
RebalanceFrom(pf, md, currentEquity, i) ==
  IF i > Len(Pairs) THEN <<>>
  ELSE IF ~HasPrice(md, Pairs[i]) THEN RebalanceFrom(pf, md, currentEquity, i + 1)
  ELSE RebalanceOrder(pf, Pairs[i], md.last[Pairs[i]], currentEquity,
                      ValueDiff(pf, md, currentEquity, Pairs[i]))
       \o RebalanceFrom(pf, md, currentEquity, i + 1)
checkRebalance(pf, md) == RebalanceFrom(pf, md, CurrentEquity(pf, md), 1)

(***************************************************************************)
(* State.                                                                  *)
(***************************************************************************)
VARIABLES
  portfolio,       \* RiskManager.portfolio
  alerts,          \* AlertManager.alerts: [type, severity]
  isRunning,       \* TradingEngine.isRunning
  logs,            \* TradingEngine.logs, oldest first
  updateInterval,  \* TradingEngine.updateInterval: 0 is null, else a timer id
  intervals,       \* the interval timers that are scheduled
  latestData,      \* ExchangeConnector.latestData: [keys, last], last 0 = none
  isConnected,     \* ExchangeConnector.isConnected
  modelLoaded,     \* MLPredictor.modelLoaded
  inFlight,        \* ticks suspended in `await fetchTickers`
  connecting,      \* connect() calls suspended in `await fetchTickers`
  pushed,          \* history: every entry pushed to the log in this run
  attempts,        \* history: the trade attempts of the latest tick
  latch,           \* history: shouldShutdown() returned true since the last start()
  nTicks,          \* history: timer callbacks run
  nCalls,          \* history: calls of start(), stop() and toggleStatus()
  nSlips,          \* history: fills with non-zero slippage
  nSignals,        \* history: signals that passed the confidence filter
  nOps,            \* history: operations called on the ledger directly
  called,          \* history: the latest call: [op, args, ret, end]
  sent,            \* history: the latest STATE_UPDATE broadcast, <<>> if none
  nFails,          \* history: broadcasts that threw
  clients,         \* TradingEngine.clients: the sockets attached
  ready,           \* the sockets of clients whose readyState is OPEN
  sentTo           \* history: the sockets the latest broadcast was sent to

vars == <<portfolio, alerts, isRunning, logs, updateInterval, intervals,
          latestData, isConnected, modelLoaded, inFlight, connecting,
          pushed, attempts, latch, nTicks, nCalls, nSlips, nSignals, nOps,
          called, sent, nFails,
                 clients, ready, sentTo>>

(***************************************************************************)
(* ExchangeConnector.                                                      *)
(***************************************************************************)
\* the tick noise and the exchange's answers are drawn from these
PriceLevels == {25, 100}
MovingPairs == {"BTC/USDT"}
\* the pairs whose signal may pass the confidence filter
SignalPairs == {"BTC/USDT", "XRP/USDT"}

\* the keys of md followed by the pairs of ps (in the order of Pairs) not yet keys
RECURSIVE InsertKeys(_, _, _)
InsertKeys(keys, ps, i) ==
  IF i > Len(Pairs) THEN keys
  ELSE IF Pairs[i] \in ps /\ \A k \in 1..Len(keys) : keys[k] # Pairs[i]
       THEN InsertKeys(Append(keys, Pairs[i]), ps, i + 1)
       ELSE InsertKeys(keys, ps, i + 1)

\* fetchMarketData, simulated branch: a known price moves by the tick noise
\* (here the noise factor 1), a pair with no data gets the fallback price
SimulateTick(md) ==
  [keys |-> InsertKeys(md.keys, PairSet, 1),
   last |-> [p \in PairSet |-> IF md.last[p] # 0 THEN md.last[p] ELSE FallbackPrice]]

\* fetchMarketData, real branch: the tickers (0: no ticker for the pair) are stored
StoreTickers(md, tickers) ==
  [keys |-> InsertKeys(md.keys, {p \in PairSet : tickers[p] # 0}, 1),
   last |-> [p \in PairSet |-> IF tickers[p] # 0 THEN tickers[p] ELSE md.last[p]]]

\* the answers of the exchange: one pair at a new level, the known ones as they are
Tickers(md) ==
  {[q \in PairSet |-> IF q = p THEN v ELSE md.last[q]] :
     p \in MovingPairs, v \in PriceLevels}

\* the cache after an awaited fetchTickers: it answered, or it threw
Fetched(md) == {md} \cup {StoreTickers(md, t) : t \in Tickers(md)}

(***************************************************************************)
(* TradingEngine: trade executor and trade log.                            *)
(***************************************************************************)
NoPnl == <<>>
\* Math.random() * 0.001, when it is not 0
SomeSlip == Rat(1, 2000)

\* a log that refuses the newest entry when it is full
PushLogKeepOldest(l, entry) ==
  IF Len(l) + 1 > MaxLogs THEN l ELSE Append(l, entry)
\* this.logs.push(log); if (this.logs.length > 1000) this.logs.shift()
PushLog(l, entry) ==
  IF Len(l) + 1 > MaxLogs THEN Tail(Append(l, entry)) ELSE Append(l, entry)

\* an executed price that moves in the trader's favour
ExecutedPriceFavourable(type, price, slip) ==
  IF type = "BUY" THEN RSub(R(price), RMul(R(price), slip))
  ELSE RAdd(R(price), RMul(R(price), slip))
\* price +- price * slip
ExecutedPrice(type, price, slip) ==
  IF type = "BUY" THEN RAdd(R(price), RMul(R(price), slip))
  ELSE RSub(R(price), RMul(R(price), slip))

\* a log entry that reports every attempt as executed
LogEntryExecuted(pair, type, executedPrice, amount, r) ==
  [pair |-> pair, type |-> type, price |-> executedPrice, amount |-> amount,
   status |-> "EXECUTED", pnl |-> NoPnl]
\* the TradeLog entry of an attempt with the ledger's answer r = [ok, pf]
LogEntry(pair, type, executedPrice, amount, r) ==
  [pair |-> pair, type |-> type, price |-> executedPrice, amount |-> amount,
   status |-> IF r.ok THEN "EXECUTED" ELSE "FAILED",
   pnl |-> IF r.ok /\ type = "SELL"
           THEN calculateTradePnL(r.pf, pair, executedPrice, amount)
           ELSE NoPnl]

\* an executor that logs the fills only
RecordedFillsOnly(m, pair, type, price, executedPrice, amount, isRebalance, r, log) ==
  [pf |-> r.pf,
   alerts |-> IF r.ok THEN sendAlert(m.alerts, "TRADE", "INFO") ELSE m.alerts,
   logs |-> IF r.ok THEN PushLog(m.logs, log) ELSE m.logs,
   pushed |-> IF r.ok THEN Append(m.pushed, log) ELSE m.pushed,
   attempts |-> Append(m.attempts,
                  [pair |-> pair, type |-> type, quoted |-> price,
                   price |-> executedPrice, amount |-> amount,
                   isRebalance |-> isRebalance, ok |-> r.ok,
                   before |-> m.pf, after |-> r.pf, entry |-> log])]
\* executeTrade from the alert on: m = [pf, alerts, logs, pushed, attempts]
Recorded(m, pair, type, price, executedPrice, amount, isRebalance, r, log) ==
  [pf |-> r.pf,
   alerts |-> IF r.ok THEN sendAlert(m.alerts, "TRADE", "INFO") ELSE m.alerts,
   logs |-> PushLog(m.logs, log),
   pushed |-> Append(m.pushed, log),
   attempts |-> Append(m.attempts,
                  [pair |-> pair, type |-> type, quoted |-> price,
                   price |-> executedPrice, amount |-> amount,
                   isRebalance |-> isRebalance, ok |-> r.ok,
                   before |-> m.pf, after |-> r.pf, entry |-> log])]

\* executeTrade once the ledger has answered r
Answered(m, pair, type, price, executedPrice, amount, isRebalance, r) ==
  Recorded(m, pair, type, price, executedPrice, amount, isRebalance, r,
           LogEntry(pair, type, executedPrice, amount, r))

\* executeTrade once the executed price is drawn
Filled(m, pair, type, price, executedPrice, amount, isRebalance) ==
  Answered(m, pair, type, price, executedPrice, amount, isRebalance,
           RM_executeTrade(m.pf, pair, type, executedPrice, amount))

\* TradingEngine.executeTrade on m = [pf, alerts, logs, pushed, attempts]
Engine_executeTrade(m, pair, type, price, amount, isRebalance, slip) ==
  Filled(m, pair, type, price, ExecutedPrice(type, price, slip), amount, isRebalance)

\* the slippage of the next attempt of the tick
SlipOf(m, slipAt) == IF Len(m.attempts) + 1 \in slipAt THEN SomeSlip ELSE Zero

\* for (const trade of rebalanceTrades) this.executeTrade(..., true)
RECURSIVE ApplyRebalance(_, _, _, _)
ApplyRebalance(m, trades, i, slipAt) ==
  IF i > Len(trades) THEN m
  ELSE ApplyRebalance(
         Engine_executeTrade(m, trades[i].pair, trades[i].action, trades[i].price,
                             trades[i].amount, TRUE, SlipOf(m, slipAt)),
         trades, i + 1, slipAt)

\* the body of the signal loop for a pair: `if (tradeAmount > 0)` executeTrade
ApplySignal(m, md, sig, pair, tradeAmount, slipAt) ==
  IF pair \in DOMAIN sig /\ (IsLost(tradeAmount) \/ RGt(tradeAmount, Zero))
  THEN Engine_executeTrade(m, pair, sig[pair], md.last[pair], tradeAmount, FALSE,
                           SlipOf(m, slipAt))
  ELSE m

\* for (const signal of signals): sig maps the pairs whose signal is not HOLD
\* and has confidence > 0.85 to its action; signals come in the order of the keys
RECURSIVE ApplySignals(_, _, _, _, _)
ApplySignals(m, md, sig, i, slipAt) ==
  IF i > Len(md.keys) THEN m
  ELSE ApplySignals(
         ApplySignal(m, md, sig, md.keys[i],
                     calculatePositionSize(m.pf, md.keys[i], md.last[md.keys[i]]),
                     slipAt),
         md, sig, i + 1, slipAt)

(***************************************************************************)
(* TradingEngine: scheduler and tick.                                      *)
(***************************************************************************)
\* the outcomes of generateSignals that pass `action !== 'HOLD' &&
\* confidence > 0.85`: none while the model is not loaded
SignalChoices(md) ==
  IF ~modelLoaded THEN {[p \in {} |-> "BUY"]}
  ELSE UNION {[S -> {"BUY", "SELL"}] :
                S \in {T \in SUBSET {p \in SignalPairs : HasPrice(md, p)} :
                         Cardinality(T) <= MaxSignals - nSignals}}

\* the attempts of one tick that are filled with a non-zero slippage
SlipChoices ==
  {T \in SUBSET (1..MaxSlipAt) : Cardinality(T) <= MaxSlips - nSlips}

\* ExchangeConnector.disconnect
Disconnected(a) == sendAlert(a, "SYSTEM", "WARNING")

\* clearInterval(this.updateInterval), when it is not null
Cleared == IF updateInterval # 0 THEN intervals \ {updateInterval} ELSE intervals

\* a rebalance that stops after the first order of the plan
RebalancedFirstOnly(m, trades, slipAt) ==
  IF Len(trades) > 0
  THEN ApplyRebalance([m EXCEPT !.alerts = sendAlert(m.alerts, "SYSTEM", "INFO")],
                      SubSeq(trades, 1, 1), 1, slipAt)
  ELSE m
\* tick(): `if (rebalanceTrades.length > 0)` alert and execute them
Rebalanced(m, trades, slipAt) ==
  IF Len(trades) > 0
  THEN ApplyRebalance([m EXCEPT !.alerts = sendAlert(m.alerts, "SYSTEM", "INFO")],
                      trades, 1, slipAt)
  ELSE m

\* a tick that applies the signal orders before it plans the rebalance
DecidedSignalsFirst(m, md, sig, slipAt) ==
  IF shouldShutdown(m.pf)
  THEN [m |-> [m EXCEPT !.alerts =
                 Disconnected(sendAlert(m.alerts, "RISK", "CRITICAL"))],
        halt |-> TRUE]
  ELSE [m |-> Rebalanced(ApplySignals(m, md, sig, 1, slipAt),
                         checkRebalance(ApplySignals(m, md, sig, 1, slipAt).pf, md),
                         slipAt),
        halt |-> FALSE]
\* a tick that trades before it shuts down
DecidedAfterTrading(m, md, sig, slipAt) ==
  IF shouldShutdown(m.pf)
  THEN [m |-> ApplySignals(
                Rebalanced([m EXCEPT !.alerts =
                              Disconnected(sendAlert(m.alerts, "RISK", "CRITICAL"))],
                           checkRebalance(m.pf, md), slipAt),
                md, sig, 1, slipAt),
        halt |-> TRUE]
  ELSE [m |-> ApplySignals(Rebalanced(m, checkRebalance(m.pf, md), slipAt),
                           md, sig, 1, slipAt),
        halt |-> FALSE]
\* tick() after updatePrices, m holding the valued ledger: the fail-safe,
\* or else the rebalance orders and the signal orders
Decided(m, md, sig, slipAt) ==
  IF shouldShutdown(m.pf)
  THEN [m |-> [m EXCEPT !.alerts =
                 Disconnected(sendAlert(m.alerts, "RISK", "CRITICAL"))],
        halt |-> TRUE]
  ELSE [m |-> ApplySignals(Rebalanced(m, checkRebalance(m.pf, md), slipAt),
                           md, sig, 1, slipAt),
        halt |-> FALSE]

\* tick() from updatePrices on, with the valued ledger
Revalued(valued, al, lg, pu, md, sig, slipAt) ==
  Decided([pf |-> valued, alerts |-> updatePricesAlerts(valued, al),
           logs |-> lg, pushed |-> pu, attempts |-> <<>>], md, sig, slipAt)

\* tick() from `this.riskManager.updatePrices(marketData)` on, run on the
\* ledger pf, the alerts al, the log lg and the history pu
TickOn(pf, al, lg, pu, md, sig, slipAt) ==
  Revalued(updatePrices(pf, md), al, lg, pu, md, sig, slipAt)

TickRun(md, sig, slipAt) == TickOn(portfolio, alerts, logs, pushed, md, sig, slipAt)

\* no number of the tick's result is Lost
ExactRun(m) ==
  /\ \A x \in {m.pf.balance, m.pf.pnl, m.pf.drawdown, m.pf.maxDrawdown,
                m.pf.winRate, m.pf.sharpeRatio} : ~IsLost(x)
  /\ \A p \in LedgerPairs : /\ ~IsLost(m.pf.positions[p].amount)
                            /\ ~IsLost(m.pf.positions[p].avgEntryPrice)
  /\ \A i \in 1..Len(m.attempts) : /\ ~IsLost(m.attempts[i].amount)
                                   /\ ~IsLost(m.attempts[i].price)
                                   /\ m.attempts[i].entry.pnl # Lost

\* seq.slice(-n)
LastOf(seq, n) ==
  IF Len(seq) <= n THEN seq ELSE SubSeq(seq, Len(seq) - n + 1, Len(seq))

\* getLogs(): the last 100 logs
getLogs(lg) == LastOf(lg, 100)

\* a broadcast that carries as much as the initial state does
StateUpdateWide(running, pf, md, lg, al) ==
  [isRunning |-> running, portfolio |-> pf, marketData |-> md,
   recentLogs |-> LastOf(getLogs(lg), 50), alerts |-> LastOf(al, 20)]
\* broadcastState(): the STATE_UPDATE message
StateUpdate(running, pf, md, lg, al) ==
  [isRunning |-> running, portfolio |-> pf, marketData |-> md,
   recentLogs |-> LastOf(getLogs(lg), 10), alerts |-> LastOf(al, 5)]

\* sendInitialState(ws): the STATE_UPDATE message of a new subscriber
InitialState(running, pf, md, lg, al) ==
  [isRunning |-> running, portfolio |-> pf, marketData |-> md,
   recentLogs |-> LastOf(getLogs(lg), 50), alerts |-> LastOf(al, 20)]

\* a toggleStatus that returns the state it found
ReturnedBefore(op, running) == IF op = "toggleStatus" THEN <<~running>> ELSE <<>>
\* the return value of a call: toggleStatus returns this.isRunning
Returned(op, running) == IF op = "toggleStatus" THEN <<running>> ELSE <<>>

\* a catch that raises no alert
CaughtSilently(al, threw) == al
\* tick(): the catch block alerts the error that was thrown, if any
Caught(al, threw) ==
  IF threw THEN sendAlert(al, "SYSTEM", "WARNING") ELSE al

\* the rest of a tick once its market data md is there; threw: client.send
\* throws for an open socket c in broadcastState, the last statement of the
\* tick, after the sockets iterated before c were sent the message, and the
\* error is caught at the end of tick() and alerted
PipelineOf(md, threw, sig, slipAt) ==
     \E r \in {TickRun(md, sig, slipAt)} :
        /\ ExactRun(r.m)
        /\ slipAt \subseteq 1..Len(r.m.attempts)
        /\ portfolio' = r.m.pf
        /\ alerts' = Caught(r.m.alerts, threw)
        /\ logs' = r.m.logs
        /\ pushed' = r.m.pushed
        /\ attempts' = r.m.attempts
        /\ nSlips' = nSlips + Cardinality(slipAt)
        /\ nSignals' = nSignals + Cardinality(DOMAIN sig)
        /\ latestData' = md
        /\ IF r.halt
           THEN /\ isRunning' = FALSE
                /\ intervals' = Cleared
                /\ isConnected' = FALSE
                /\ latch' = TRUE
           ELSE UNCHANGED <<isRunning, intervals, isConnected, latch>>
        /\ sent' = <<StateUpdate(isRunning', r.m.pf, md, r.m.logs, r.m.alerts)>>
        /\ IF threw
           THEN \E c \in ready : sentTo' \in SUBSET (ready \ {c})
           ELSE sentTo' = ready
        /\ called' = [op |-> "tick", args |-> <<>>, ret |-> <<>>,
                      end |-> (IF r.halt THEN {"halted"} ELSE {})
                              \cup (IF threw THEN {"threw"} ELSE {})]
        /\ nFails' = IF threw THEN nFails + 1 ELSE nFails
        /\ UNCHANGED <<updateInterval, modelLoaded, connecting, nOps, clients, ready>>

\* the rest of a tick with the signals and the slippages it draws
Pipeline(md, threw) ==
  \E sig \in SignalChoices(md) : \E slipAt \in SlipChoices :
     PipelineOf(md, threw, sig, slipAt)

Init ==
  /\ portfolio = InitPortfolio
  /\ alerts = <<>>
  /\ isRunning = FALSE
  /\ logs = <<>>
  /\ updateInterval = 0
  /\ intervals = {}
  /\ latestData = [keys |-> <<>>, last |-> [p \in PairSet |-> 0]]
  /\ isConnected = FALSE
  /\ modelLoaded = FALSE
  /\ inFlight = 0
  /\ connecting = 0
  /\ pushed = <<>>
  /\ attempts = <<>>
  /\ latch = FALSE
  /\ nTicks = 0
  /\ nCalls = 0
  /\ nSlips = 0
  /\ nSignals = 0
  /\ nOps = 0
  /\ called = [op |-> "new", args |-> <<>>, ret |-> <<>>, end |-> {}]
  /\ sent = <<>>
  /\ nFails = 0
  /\ clients = {}
  /\ ready = {}
  /\ sentTo = {}

\* MLPredictor.loadModel: the model is loaded one second after construction
LoadModel ==
  /\ ~modelLoaded
  /\ modelLoaded' = TRUE
  /\ UNCHANGED <<portfolio, alerts, isRunning, logs, updateInterval, intervals,
                 latestData, isConnected, inFlight, connecting,
                 pushed, attempts, latch, nTicks, nCalls, nSlips, nSignals, nOps,
                 called, sent, nFails,
                 clients, ready, sentTo>>

\* start(): connect() runs its first fetch, which simulates a tick at once
\* (real = FALSE) or awaits the exchange (real = TRUE); op is the method called
StartBody(real, op) ==
  /\ isRunning' = TRUE
  /\ isConnected' = TRUE
  /\ alerts' = sendAlert(alerts, "SYSTEM", "INFO")
  /\ IF real
     THEN connecting' = connecting + 1 /\ UNCHANGED latestData
     ELSE latestData' = SimulateTick(latestData) /\ UNCHANGED connecting
  /\ updateInterval' = nCalls + 1
  /\ intervals' = intervals \cup {nCalls + 1}
  /\ latch' = FALSE
  /\ nCalls' = nCalls + 1
  /\ called' = [op |-> op, args |-> <<>>, ret |-> Returned(op, isRunning'), end |-> {}]
  /\ UNCHANGED <<portfolio, logs, modelLoaded, inFlight, pushed, attempts,
                 nTicks, nSlips, nSignals, nOps, sent, nFails,
                 clients, ready, sentTo>>

\* stop(); op is the method called
StopBody(op) ==
  /\ isRunning' = FALSE
  /\ intervals' = Cleared
  /\ isConnected' = FALSE
  /\ alerts' = Disconnected(alerts)
  /\ nCalls' = nCalls + 1
  /\ called' = [op |-> op, args |-> <<>>, ret |-> Returned(op, isRunning'), end |-> {}]
  /\ UNCHANGED <<portfolio, logs, updateInterval, latestData, modelLoaded,
                 inFlight, connecting, pushed, attempts, latch, nTicks, nSlips,
                 nSignals, nOps, sent, nFails,
                 clients, ready, sentTo>>

\* Math.random() < 0.1 in fetchMarketData: the fetch may await the exchange
\* while fewer than MaxInFlight fetches do
MayAwait == IF inFlight + connecting < MaxInFlight THEN {FALSE, TRUE} ELSE {FALSE}

Start ==
  /\ nCalls < MaxCalls
  /\ \E real \in MayAwait : StartBody(real, "start")

Stop ==
  /\ nCalls < MaxCalls
  /\ StopBody("stop")

\* toggleStatus(), as POST /api/engine/toggle calls it
Toggle ==
  /\ nCalls < MaxCalls
  /\ IF isRunning THEN StopBody("toggleStatus")
     ELSE \E real \in MayAwait : StartBody(real, "toggleStatus")

\* a timer callback: tick() returns at once when the engine is not running
TickIdle ==
  /\ intervals # {}
  /\ ~isRunning
  /\ nTicks < MaxTicks
  /\ nTicks' = nTicks + 1
  /\ called' = [op |-> "tick", args |-> <<>>, ret |-> <<>>, end |-> {"idle"}]
  /\ UNCHANGED <<portfolio, alerts, isRunning, logs, updateInterval, intervals,
                 latestData, isConnected, modelLoaded, inFlight, connecting,
                 pushed, attempts, latch, nCalls, nSlips, nSignals, nOps,
                 sent, nFails,
                 clients, ready, sentTo>>

\* a timer callback whose fetchMarketData does not await: the tick runs through
TickSim ==
  /\ intervals # {}
  /\ isRunning
  /\ nTicks < MaxTicks
  /\ nTicks' = nTicks + 1
  /\ Pipeline(IF isConnected THEN SimulateTick(latestData) ELSE latestData, FALSE)
  /\ UNCHANGED <<inFlight, nCalls>>

\* a timer callback whose fetchMarketData awaits the exchange: the tick is suspended
TickFetch ==
  /\ intervals # {}
  /\ isRunning
  /\ isConnected
  /\ nTicks < MaxTicks
  /\ inFlight + connecting < MaxInFlight
  /\ nTicks' = nTicks + 1
  /\ inFlight' = inFlight + 1
  /\ called' = [op |-> "tick", args |-> <<>>, ret |-> <<>>, end |-> {"suspended"}]
  /\ UNCHANGED <<portfolio, alerts, isRunning, logs, updateInterval, intervals,
                 latestData, isConnected, modelLoaded, connecting,
                 pushed, attempts, latch, nCalls, nSlips, nSignals, nOps,
                 sent, nFails,
                 clients, ready, sentTo>>

\* the exchange answers (or fails) and a suspended tick runs through
TickResume ==
  /\ inFlight > 0
  /\ inFlight' = inFlight - 1
  /\ \E md \in Fetched(latestData) : Pipeline(md, FALSE)
  /\ UNCHANGED <<nTicks, nCalls>>

\* the exchange answers (or fails) the first fetch of a connect()
ConnectResume ==
  /\ connecting > 0
  /\ connecting' = connecting - 1
  /\ \E md \in Fetched(latestData) : latestData' = md
  /\ UNCHANGED <<portfolio, alerts, isRunning, logs, updateInterval, intervals,
                 isConnected, modelLoaded, inFlight,
                 pushed, attempts, latch, nTicks, nCalls, nSlips, nSignals, nOps,
                 called, sent, nFails,
                 clients, ready, sentTo>>

\* wss.on('connection'): the socket is added to clients and is sent the
\* initial state
Connection ==
  /\ Cardinality(clients) < MaxClients
  /\ \E c \in (1..MaxClients) \ clients :
       /\ clients' = clients \cup {c}
       /\ ready' = ready \cup {c}
       /\ called' = [op |-> "connection", args |-> <<c>>,
                     ret |-> <<InitialState(isRunning, portfolio, latestData,
                                            logs, alerts)>>,
                     end |-> {}]
  /\ UNCHANGED <<portfolio, alerts, isRunning, logs, updateInterval, intervals,
                 latestData, isConnected, modelLoaded, inFlight, connecting,
                 pushed, attempts, latch, nTicks, nCalls, nSlips, nSignals, nOps,
                 sent, nFails, sentTo>>

\* a socket begins to close: its readyState is no longer OPEN
Closing ==
  /\ \E c \in ready : ready' = ready \ {c}
  /\ UNCHANGED <<portfolio, alerts, isRunning, logs, updateInterval, intervals,
                 latestData, isConnected, modelLoaded, inFlight, connecting,
                 pushed, attempts, latch, nTicks, nCalls, nSlips, nSignals, nOps,
                 called, sent, nFails, clients, sentTo>>

\* ws.on('close'): the socket is removed from clients
Close ==
  /\ \E c \in clients \ ready : clients' = clients \ {c}
  /\ UNCHANGED <<portfolio, alerts, isRunning, logs, updateInterval, intervals,
                 latestData, isConnected, modelLoaded, inFlight, connecting,
                 pushed, attempts, latch, nTicks, nCalls, nSlips, nSignals, nOps,
                 called, sent, nFails, ready, sentTo>>

\* getLogs(), as GET /api/logs calls it
GetLogs ==
  /\ called' = [op |-> "getLogs", args |-> <<>>, ret |-> <<getLogs(logs)>>,
                end |-> {}]
  /\ UNCHANGED <<portfolio, alerts, isRunning, logs, updateInterval, intervals,
                 latestData, isConnected, modelLoaded, inFlight, connecting,
                 pushed, attempts, latch, nTicks, nCalls, nSlips, nSignals, nOps,
                 sent, nFails, clients, ready, sentTo>>

Next ==
  \/ LoadModel
  \/ Start
  \/ Stop
  \/ Toggle
  \/ TickIdle
  \/ TickSim
  \/ TickFetch
  \/ TickResume
  \/ ConnectResume

Spec == Init /\ [][Next]_vars

(***************************************************************************)
(* The engine with subscribers whose sockets may throw: client.send throws *)
(* in the broadcast of a tick and tick() catches the error.                *)
(***************************************************************************)
\* the engine after construction and the connection of one subscriber
InitFaults ==
  /\ portfolio = InitPortfolio
  /\ alerts = <<>>
  /\ isRunning = FALSE
  /\ logs = <<>>
  /\ updateInterval = 0
  /\ intervals = {}
  /\ latestData = [keys |-> <<>>, last |-> [p \in PairSet |-> 0]]
  /\ isConnected = FALSE
  /\ modelLoaded = FALSE
  /\ inFlight = 0
  /\ connecting = 0
  /\ pushed = <<>>
  /\ attempts = <<>>
  /\ latch = FALSE
  /\ nTicks = 0
  /\ nCalls = 0
  /\ nSlips = 0
  /\ nSignals = 0
  /\ nOps = 0
  /\ called = [op |-> "connection", args |-> <<1>>,
               ret |-> <<InitialState(FALSE, InitPortfolio, latestData, <<>>, <<>>)>>,
               end |-> {}]
  /\ sent = <<>>
  /\ nFails = 0
  /\ clients = {1}
  /\ ready = {1}
  /\ sentTo = {}

\* TickSim with a broadcast that throws
TickSimThrown ==
  /\ intervals # {}
  /\ isRunning
  /\ nTicks < MaxTicks
  /\ nFails < MaxFails
  /\ nTicks' = nTicks + 1
  /\ Pipeline(IF isConnected THEN SimulateTick(latestData) ELSE latestData, TRUE)
  /\ UNCHANGED <<inFlight, nCalls>>

\* TickResume with a broadcast that throws
TickResumeThrown ==
  /\ inFlight > 0
  /\ nFails < MaxFails
  /\ inFlight' = inFlight - 1
  /\ \E md \in Fetched(latestData) : Pipeline(md, TRUE)
  /\ UNCHANGED <<nTicks, nCalls>>

NextFaults ==
  \/ Start
  \/ Stop
  \/ TickIdle
  \/ TickSim
  \/ TickFetch
  \/ TickResume
  \/ ConnectResume
  \/ TickSimThrown
  \/ TickResumeThrown

SpecFaults == InitFaults /\ [][NextFaults]_vars

(***************************************************************************)
(* A run that continues a long-lived engine: the model is loaded, start()  *)
(* was called, the first tick bought the target allocations with its first *)
(* fill slipped (so the last order failed), and every later tick logged    *)
(* one failed SELL signal, until the log held MaxLogs - MaxOldLogs entries.*)
(* Trade attempts then follow in any order (nothing else writes the log).  *)
(***************************************************************************)
InitLongLog ==
  \E md \in {SimulateTick([keys |-> <<>>, last |-> [p \in PairSet |-> 0]])} :
  \E first \in {TickOn(InitPortfolio, sendAlert(<<>>, "SYSTEM", "INFO"),
                       <<>>, <<>>, md, [p \in {"XRP/USDT"} |-> "SELL"], {1}).m} :
  \E later \in {TickOn(first.pf, first.alerts, <<>>, <<>>, md,
                       [p \in {"XRP/USDT"} |-> "SELL"], {}).m} :
     /\ Len(later.logs) = 1
     /\ portfolio = later.pf
     /\ alerts = later.alerts
     /\ isRunning = TRUE
     /\ logs = first.logs \o
              [i \in 1..(MaxLogs - MaxOldLogs - Len(first.logs)) |-> later.logs[1]]
     /\ updateInterval = 1
     /\ intervals = {1}
     /\ latestData = md
     /\ isConnected = TRUE
     /\ modelLoaded = TRUE
     /\ inFlight = 0
     /\ connecting = 0
     /\ pushed = logs
     /\ attempts = later.attempts
     /\ latch = FALSE
     /\ nTicks = 0
     /\ nCalls = 1
     /\ nSlips = 0
     /\ nSignals = 0
     /\ nOps = 0
     /\ called = [op |-> "tick", args |-> <<>>, ret |-> <<>>, end |-> {}]
     /\ sent = <<StateUpdate(TRUE, later.pf, md, logs, later.alerts)>>
     /\ nFails = 0
     /\ clients = {}
     /\ ready = {}
     /\ sentTo = {}

(***************************************************************************)
(* The ledger and the executor called directly: any sequence of trade      *)
(* attempts (any pair, side, price, amount and slippage of the sets below) *)
(* and valuations on the ledger after construction.                        *)
(***************************************************************************)
OrderPairs == {"BTC/USDT"}
OrderPrices == {20, 60}
OrderAmounts == {Rat(1, 2), R(2)}
\* market data of a valuation: each order pair without a price or at a price
QuotedData ==
  {[keys |-> <<>>, last |-> [p \in PairSet |-> IF p \in OrderPairs THEN v[p] ELSE 0]] :
     v \in [OrderPairs -> {0} \cup OrderPrices]}

\* TradingEngine.executeTrade(pair, type, price, amount)
ExecuteTrade ==
  /\ nOps < MaxOps
  /\ \E pair \in OrderPairs, type \in {"BUY", "SELL"}, price \in OrderPrices,
        amount \in OrderAmounts, slip \in {Zero, SomeSlip} :
       \E m \in {Engine_executeTrade(
                    [pf |-> portfolio, alerts |-> alerts, logs |-> logs,
                     pushed |-> pushed, attempts |-> <<>>],
                    pair, type, price, amount, FALSE, slip)} :
          /\ ExactRun(m)
          /\ portfolio' = m.pf
          /\ alerts' = m.alerts
          /\ logs' = m.logs
          /\ pushed' = m.pushed
          /\ attempts' = m.attempts
  /\ nOps' = nOps + 1
  /\ UNCHANGED <<isRunning, updateInterval, intervals, latestData, isConnected,
                 modelLoaded, inFlight, connecting, latch, nTicks, nCalls,
                 nSlips, nSignals, called, sent, nFails,
                 clients, ready, sentTo>>

\* RiskManager.updatePrices(marketData)
UpdatePrices ==
  /\ nOps < MaxOps
  /\ \E md \in QuotedData :
       \E valued \in {updatePrices(portfolio, md)} :
          /\ ~IsLost(valued.drawdown) /\ ~IsLost(valued.pnl)
          /\ portfolio' = valued
          /\ alerts' = updatePricesAlerts(valued, alerts)
          /\ latestData' = md
  /\ attempts' = <<>>
  /\ nOps' = nOps + 1
  /\ UNCHANGED <<isRunning, logs, updateInterval, intervals, isConnected,
                 modelLoaded, inFlight, connecting, pushed, latch, nTicks,
                 nCalls, nSlips, nSignals, called, sent, nFails,
                 clients, ready, sentTo>>

NextLedger ==
  \/ ExecuteTrade
  \/ UpdatePrices

SpecLedger == Init /\ [][NextLedger]_vars

SpecLongLog == InitLongLog /\ [][ExecuteTrade]_vars

(***************************************************************************)
(* The feed of a long run: the engine after its first tick, many later     *)
(* ticks that each logged one refused SELL, and many stop() and start()    *)
(* calls that each raised one alert, with subscribers attaching, closing   *)
(* and being sent the state.                                               *)
(***************************************************************************)
\* the alerts of k calls of stop() and start(), the last one a start()
Restarts(k) ==
  [i \in 1..k |-> IF (k - i) % 2 = 0
                  THEN [type |-> "SYSTEM", severity |-> "INFO"]
                  ELSE [type |-> "SYSTEM", severity |-> "WARNING"]]

InitFeed ==
  \E md \in {SimulateTick([keys |-> <<>>, last |-> [p \in PairSet |-> 0]])} :
  \E first \in {TickOn(InitPortfolio, sendAlert(<<>>, "SYSTEM", "INFO"),
                       <<>>, <<>>, md, [p \in {"XRP/USDT"} |-> "SELL"], {1}).m} :
  \E later \in {TickOn(first.pf, first.alerts, <<>>, <<>>, md,
                       [p \in {"XRP/USDT"} |-> "SELL"], {}).m} :
     /\ Len(later.logs) = 1
     /\ later.alerts = first.alerts
     /\ portfolio = later.pf
     /\ alerts = first.alerts \o Restarts(20 + MaxBeyond - Len(first.alerts))
     /\ isRunning = TRUE
     /\ logs = first.logs \o
              [i \in 1..(100 + MaxBeyond - Len(first.logs)) |-> later.logs[1]]
     /\ updateInterval = 1
     /\ intervals = {1}
     /\ latestData = md
     /\ isConnected = TRUE
     /\ modelLoaded = TRUE
     /\ inFlight = 0
     /\ connecting = 0
     /\ pushed = logs
     /\ attempts = later.attempts
     /\ latch = FALSE
     /\ nTicks = 0
     /\ nCalls = 1
     /\ nSlips = 0
     /\ nSignals = 0
     /\ nOps = 0
     /\ called = [op |-> "start", args |-> <<>>, ret |-> <<>>, end |-> {}]
     /\ sent = <<StateUpdate(TRUE, later.pf, md, logs, first.alerts)>>
     /\ nFails = 0
     /\ clients = {}
     /\ ready = {}
     /\ sentTo = {}

NextFeed ==
  \/ Connection
  \/ Closing
  \/ Close
  \/ GetLogs
  \/ TickSim

SpecFeed == InitFeed /\ [][NextFeed]_vars

(***************************************************************************)
(* The two trading steps of tick() on any ledger: the rebalance (plan and   *)
(* execution) and the body of the signal loop for one signal that passes   *)
(* the filter, on a ledger with the balance and the held pairs of the sets *)
(* below.                                                                  *)
(***************************************************************************)
\* balances: 0.20, 10000 and 100000 dollars
SizingBalances == {Rat(1, 5000), R(10), R(100)}
\* the pairs held: none, the first four, the five target pairs
SizingHeld == {{}, PairSet \ {"XRP/USDT"}, PairSet}
SizingPairs == {"XRP/USDT", OtherPair}

\* the ledger with the given balance and a tenth of a coin of each held pair
SizingLedger(balance, held) ==
  [InitPortfolio EXCEPT
     !.balance = balance,
     !.positions = [p \in LedgerPairs |->
                      IF p \in held
                      THEN [held |-> TRUE, amount |-> Rat(1, 10),
                            avgEntryPrice |-> R(50)]
                      ELSE NoPosition]]

InitSizing ==
  /\ \E balance \in SizingBalances, held \in SizingHeld :
        portfolio = SizingLedger(balance, held)
  /\ alerts = <<>>
  /\ isRunning = FALSE
  /\ logs = <<>>
  /\ updateInterval = 0
  /\ intervals = {}
  /\ latestData = [keys |-> <<>>, last |-> [p \in PairSet |-> 0]]
  /\ isConnected = FALSE
  /\ modelLoaded = TRUE
  /\ inFlight = 0
  /\ connecting = 0
  /\ pushed = <<>>
  /\ attempts = <<>>
  /\ latch = FALSE
  /\ nTicks = 0
  /\ nCalls = 0
  /\ nSlips = 0
  /\ nSignals = 0
  /\ nOps = 0
  /\ called = [op |-> "new", args |-> <<>>, ret |-> <<>>, end |-> {}]
  /\ sent = <<>>
  /\ nFails = 0
  /\ clients = {}
  /\ ready = {}
  /\ sentTo = {}

\* tick(): tradeAmount = calculatePositionSize(signal.pair, signal.price);
\* if (tradeAmount > 0) executeTrade(signal.pair, signal.action, signal.price,
\* tradeAmount)
SignalTrade ==
  /\ nOps < MaxSized
  /\ \E pair \in SizingPairs, type \in {"BUY", "SELL"}, price \in OrderPrices,
        slip \in {Zero, SomeSlip} :
       \E tradeAmount \in {calculatePositionSize(portfolio, pair, price)} :
       \E m \in {IF IsLost(tradeAmount) \/ RGt(tradeAmount, Zero)
                 THEN Engine_executeTrade(
                        [pf |-> portfolio, alerts |-> alerts, logs |-> logs,
                         pushed |-> pushed, attempts |-> <<>>],
                        pair, type, price, tradeAmount, FALSE, slip)
                 ELSE [pf |-> portfolio, alerts |-> alerts, logs |-> logs,
                       pushed |-> pushed, attempts |-> <<>>]} :
          /\ ExactRun(m)
          /\ portfolio' = m.pf
          /\ alerts' = m.alerts
          /\ logs' = m.logs
          /\ pushed' = m.pushed
          /\ attempts' = m.attempts
          /\ called' = [op |-> "calculatePositionSize", args |-> <<pair, price>>,
                        ret |-> <<tradeAmount>>, end |-> {}]
  /\ nOps' = nOps + 1
  /\ UNCHANGED <<isRunning, updateInterval, intervals, latestData, isConnected,
                 modelLoaded, inFlight, connecting, latch, nTicks, nCalls,
                 nSlips, nSignals, sent, nFails,
                 clients, ready, sentTo>>

\* no market data yet
NoData == [keys |-> <<>>, last |-> [p \in PairSet |-> 0]]
\* snapshots: every pair at the fallback price, BTC alone at a price, BTC at
\* that price beside the others at the fallback price
PlanData ==
  {SimulateTick(NoData)}
  \cup {StoreTickers(d, [p \in PairSet |-> IF p = "BTC/USDT" THEN 100 ELSE d.last[p]]) :
          d \in {NoData, SimulateTick(NoData)}}

\* tick(): rebalanceTrades = checkRebalance(marketData); if there are any,
\* alert and executeTrade each of them
Rebalance ==
  /\ nOps < MaxSized
  /\ \E md \in PlanData, slipAt \in {{}, {1}} :
       \E trades \in {checkRebalance(portfolio, md)} :
       \E m \in {Rebalanced([pf |-> portfolio, alerts |-> alerts, logs |-> logs,
                             pushed |-> pushed, attempts |-> <<>>],
                            trades, slipAt)} :
          /\ ExactRun(m)
          /\ portfolio' = m.pf
          /\ alerts' = m.alerts
          /\ logs' = m.logs
          /\ pushed' = m.pushed
          /\ attempts' = m.attempts
          /\ latestData' = md
          /\ called' = [op |-> "checkRebalance", args |-> <<md>>,
                        ret |-> <<trades>>, end |-> {}]
  /\ nOps' = nOps + 1
  /\ UNCHANGED <<isRunning, updateInterval, intervals, isConnected,
                 modelLoaded, inFlight, connecting, latch, nTicks, nCalls,
                 nSlips, nSignals, sent, nFails,
                 clients, ready, sentTo>>

NextSizing ==
  \/ SignalTrade
  \/ Rebalance

SpecSizing == InitSizing /\ [][NextSizing]_vars

(***************************************************************************)
(* Whole ticks on any ledger: the engine is running on one of the ledgers  *)
(* of the sizing runs, and each tick gets one of the snapshots and any     *)
(* signals for the signal pairs.                                           *)
(***************************************************************************)
InitTick ==
  /\ \E balance \in SizingBalances, held \in SizingHeld :
        portfolio = SizingLedger(balance, held)
  /\ alerts = <<[type |-> "SYSTEM", severity |-> "INFO"]>>
  /\ isRunning = TRUE
  /\ logs = <<>>
  /\ updateInterval = 1
  /\ intervals = {1}
  /\ latestData = SimulateTick(NoData)
  /\ isConnected = TRUE
  /\ modelLoaded = TRUE
  /\ inFlight = 0
  /\ connecting = 0
  /\ pushed = <<>>
  /\ attempts = <<>>
  /\ latch = FALSE
  /\ nTicks = 0
  /\ nCalls = 1
  /\ nSlips = 0
  /\ nSignals = 0
  /\ nOps = 0
  /\ called = [op |-> "start", args |-> <<>>, ret |-> <<>>, end |-> {}]
  /\ sent = <<>>
  /\ nFails = 0
  /\ clients = {}
  /\ ready = {}
  /\ sentTo = {}

\* the signals of one tick that pass the filter: any of the signal pairs
TickSignals(md) ==
  UNION {[S -> {"BUY", "SELL"}] : S \in SUBSET {p \in SignalPairs : HasPrice(md, p)}}

\* a timer callback that runs through, with the snapshot md fetched
TickThrough ==
  /\ intervals # {}
  /\ isRunning
  /\ nTicks < MaxSized
  /\ nTicks' = nTicks + 1
  /\ \E md \in PlanData : \E sig \in TickSignals(md), slipAt \in SlipChoices :
       PipelineOf(md, FALSE, sig, slipAt)
  /\ UNCHANGED <<inFlight, nCalls>>

SpecTick == InitTick /\ [][TickThrough]_vars

(***************************************************************************)
(* Properties.                                                             *)
(***************************************************************************)
\* the attempts of the latest tick, by index
Attempted == 1..Len(attempts)

\* C1: the balance is never negative, neither between two ticks nor after
\* any single BUY or SELL attempt (rebalance or signal, slipped or not,
\* filled or failed) within a tick.
C1_BalanceNeverNegative ==
  /\ RGe(portfolio.balance, Zero)
  /\ \A i \in Attempted : RGe(attempts[i].after.balance, Zero)

\* C1 happens: a BUY was refused because its slipped cost, but not its
\* quoted cost, exceeded the balance that earlier fills had left
C1_Witness ==
  \E i \in Attempted :
     /\ attempts[i].type = "BUY" /\ ~attempts[i].ok
     /\ RLt(attempts[i].before.balance, RMul(attempts[i].price, attempts[i].amount))
     /\ RGe(attempts[i].before.balance,
            RMul(R(attempts[i].quoted), attempts[i].amount))
     /\ RLt(attempts[i].before.balance, portfolio.initialBalance)

\* C2: once shouldShutdown() has returned true in a tick, the engine is
\* halted and, until start() is called again, no tick (the halting one or
\* one that was already in flight) attempts a trade or appends to the log.
C2_NoTradeOnceHalted ==
  latch => ~isRunning /\ attempts = <<>>

\* C3: ticks never overlap: at most one tick is between its start and its
\* completion, also while a tick awaits the exchange and the timer fires.
C3_TicksNeverOverlap == inFlight <= 1

\* the attempt was a SELL for a pair with no position, or of more than is held
SellBeyondPosition(a) ==
  /\ a.type = "SELL"
  /\ \/ ~a.before.positions[a.pair].held
     \/ RGt(a.amount, a.before.positions[a.pair].amount)

\* C4: a SELL whose amount exceeds the held amount of the pair, or for a pair
\* with no position, fails and leaves balance, positions, pnl, totalTrades,
\* winningTrades and winRate as they were.
C4_SellBeyondPositionFails ==
  \A i \in Attempted :
     SellBeyondPosition(attempts[i]) =>
       /\ ~attempts[i].ok
       /\ attempts[i].after.balance = attempts[i].before.balance
       /\ attempts[i].after.positions = attempts[i].before.positions
       /\ attempts[i].after.pnl = attempts[i].before.pnl
       /\ attempts[i].after.totalTrades = attempts[i].before.totalTrades
       /\ attempts[i].after.winningTrades = attempts[i].before.winningTrades
       /\ attempts[i].after.winRate = attempts[i].before.winRate

\* C4 happens: a SELL of more than the held (non-zero) amount was attempted
C4_Witness ==
  \E i \in Attempted :
     /\ SellBeyondPosition(attempts[i])
     /\ attempts[i].before.positions[attempts[i].pair].held
     /\ RGt(attempts[i].before.positions[attempts[i].pair].amount, Zero)

\* the attempt was a BUY whose executed cost exceeds the balance
BuyBeyondBalance(a) ==
  a.type = "BUY" /\ RGt(RMul(a.price, a.amount), a.before.balance)

\* the log entries appended by a step, oldest first
Appended(before, after) ==
  [i \in 1..(Len(after) - Len(before)) |-> after[Len(before) + i]]

\* C5: a BUY whose executed cost (executedPrice x amount) exceeds the balance
\* fails: balance and positions stay as they were, no position entry is
\* created for the pair, and one FAILED entry is appended to the trade log.
C5_BuyBeyondBalanceFails ==
  [][\A i \in 1..Len(attempts') :
       (pushed' # pushed /\ BuyBeyondBalance(attempts'[i])) =>
         /\ ~attempts'[i].ok
         /\ attempts'[i].after.balance = attempts'[i].before.balance
         /\ attempts'[i].after.positions = attempts'[i].before.positions
         /\ attempts'[i].after.positions[attempts'[i].pair].held =
              attempts'[i].before.positions[attempts'[i].pair].held
         /\ Len(pushed') = Len(pushed) + Len(attempts')
         /\ Appended(pushed, pushed')[i] = attempts'[i].entry
         /\ attempts'[i].entry.status = "FAILED"
         /\ logs' = logs \o Appended(pushed, pushed')]_vars

\* C5 happens: a BUY for a pair with no position cost more than the balance
C5_Witness ==
  \E i \in Attempted :
     /\ BuyBeyondBalance(attempts[i])
     /\ ~attempts[i].before.positions[attempts[i].pair].held
     /\ pushed[Len(pushed)].status = "FAILED"
     /\ logs[Len(logs)].type = "BUY"

\* the log entry is a fill of the given side on the pair
IsFill(e, pair, type) == e.pair = pair /\ e.type = type /\ e.status = "EXECUTED"

\* the index of the last SELL fill on the pair in the history, 0 if none
LastSell(pair) ==
  IF \E i \in 1..Len(pushed) : IsFill(pushed[i], pair, "SELL")
  THEN CHOOSE i \in 1..Len(pushed) :
         /\ IsFill(pushed[i], pair, "SELL")
         /\ \A j \in (i + 1)..Len(pushed) : ~IsFill(pushed[j], pair, "SELL")
  ELSE 0

\* the amount bought less the amount sold on the pair by the entries 1..i
RECURSIVE NetAmount(_, _)
NetAmount(pair, i) ==
  IF i = 0 THEN Zero
  ELSE IF IsFill(pushed[i], pair, "BUY")
       THEN RAdd(NetAmount(pair, i - 1), pushed[i].amount)
  ELSE IF IsFill(pushed[i], pair, "SELL")
       THEN RSub(NetAmount(pair, i - 1), pushed[i].amount)
  ELSE NetAmount(pair, i - 1)

\* the sum of the amounts of the BUY fills on the pair after entry i
RECURSIVE SumAmount(_, _)
SumAmount(pair, i) ==
  IF i >= Len(pushed) THEN Zero
  ELSE IF IsFill(pushed[i + 1], pair, "BUY")
       THEN RAdd(pushed[i + 1].amount, SumAmount(pair, i + 1))
  ELSE SumAmount(pair, i + 1)

\* the sum of executedPrice x amount of the BUY fills on the pair after entry i
RECURSIVE SumValue(_, _)
SumValue(pair, i) ==
  IF i >= Len(pushed) THEN Zero
  ELSE IF IsFill(pushed[i + 1], pair, "BUY")
       THEN RAdd(RMul(pushed[i + 1].price, pushed[i + 1].amount),
                 SumValue(pair, i + 1))
  ELSE SumValue(pair, i + 1)

\* the BUY fills on the pair since it last had no position (from the start, or
\* from a SELL that sold all of it) are not followed by a SELL fill
OnlyBought(pair) == NetAmount(pair, LastSell(pair)) = Zero

\* C6: after successful BUY fills on one pair, starting from no position and
\* with no SELL in between, the position's amount is the sum of the fill
\* amounts and its avgEntryPrice is sum(executedPrice_i x amount_i) /
\* sum(amount_i).
C6_WeightedAverageEntry ==
  \A pair \in PairSet :
     (OnlyBought(pair) /\ SumAmount(pair, LastSell(pair)) # Zero) =>
       /\ portfolio.positions[pair].held
       /\ portfolio.positions[pair].amount = SumAmount(pair, LastSell(pair))
       /\ portfolio.positions[pair].avgEntryPrice =
            RDiv(SumValue(pair, LastSell(pair)), SumAmount(pair, LastSell(pair)))

\* C6 happens: two BUY fills of different amounts at different executed
\* prices on a pair that had no position, and no SELL fill since
C6_Witness ==
  \E pair \in PairSet : \E i, j \in 1..Len(pushed) :
     /\ i < j
     /\ IsFill(pushed[i], pair, "BUY") /\ IsFill(pushed[j], pair, "BUY")
     /\ pushed[i].price # pushed[j].price
     /\ pushed[i].amount # pushed[j].amount
     /\ OnlyBought(pair)
     /\ LastSell(pair) < i

\* C7: the trade log holds at most 1000 entries; an append beyond the cap
\* drops the oldest entry, so the log is always the most recent (at most
\* 1000) of all entries ever appended, in the order of their insertion.
C7_LogKeepsMostRecent ==
  /\ Len(logs) <= MaxLogs
  /\ Len(logs) = IF Len(pushed) < MaxLogs THEN Len(pushed) ELSE MaxLogs
  /\ \A i \in 1..Len(logs) : logs[i] = pushed[Len(pushed) - Len(logs) + i]

\* C7 happens: more than 1000 entries were appended, the oldest one is gone
\* and the newest one differs from the one before
C7_Witness ==
  /\ Len(pushed) > MaxLogs
  /\ Len(logs) = MaxLogs
  /\ logs[1] # pushed[1]
  /\ logs[MaxLogs] # logs[MaxLogs - 1]

\* the SELL fills in the history
SellFills == {i \in 1..Len(pushed) : pushed[i].type = "SELL" /\ pushed[i].status = "EXECUTED"}

\* the realized PnL of a SELL attempt: (executedPrice - avgEntryPrice) x amount
RealizedPnl(a) ==
  RMul(RSub(a.price, a.before.positions[a.pair].avgEntryPrice), a.amount)

\* the attempts of a step that are SELL fills with a realized PnL above 0
WinningSells(before, after, made) ==
  IF after = before THEN {}
  ELSE {i \in 1..Len(made) : /\ made[i].type = "SELL" /\ made[i].ok
                              /\ RGt(RealizedPnl(made[i]), Zero)}

\* C8: winRate is winningTrades / totalTrades x 100 when totalTrades > 0 and
\* still 0 when totalTrades = 0; totalTrades counts exactly the successful
\* SELLs, and winningTrades those of them whose realized PnL is above 0.
C8_WinRate ==
  /\ [](/\ portfolio.totalTrades = Cardinality(SellFills)
        /\ portfolio.winningTrades <= portfolio.totalTrades
        /\ portfolio.winRate =
             IF portfolio.totalTrades > 0
             THEN RMul(Rat(portfolio.winningTrades, portfolio.totalTrades), R(100))
             ELSE Zero)
  /\ [][portfolio'.winningTrades =
          portfolio.winningTrades
          + Cardinality(WinningSells(pushed, pushed', attempts'))]_vars

\* C8 happens: SELL fills with and without a realized gain were counted
C8_Witness ==
  /\ portfolio.totalTrades >= 2
  /\ portfolio.winningTrades > 0
  /\ portfolio.winningTrades < portfolio.totalTrades
  /\ portfolio.winRate = R(50)

\* C9: with market prices that are not negative, drawdown lies within [0, 1]
\* after any sequence of valuations and trades.
C9_DrawdownInUnitInterval ==
  /\ RGe(portfolio.drawdown, Zero)
  /\ RLe(portfolio.drawdown, R(1))

\* C9 happens: a valuation found the equity strictly between nothing and the
\* peak, after trades and an earlier valuation at or above the peak
C9_Witness ==
  /\ RGt(portfolio.drawdown, Zero)
  /\ RLt(portfolio.drawdown, R(1))
  /\ RGt(portfolio.maxDrawdown, portfolio.drawdown)
  /\ Len(pushed) > 0

\* C10: maxDrawdown never decreases, and after every valuation (a drawdown
\* changes in no other step) maxDrawdown is at least the drawdown.
C10_MaxDrawdownMonotone ==
  [][/\ RGe(portfolio'.maxDrawdown, portfolio.maxDrawdown)
     /\ RGe(portfolio'.maxDrawdown, portfolio'.drawdown)]_vars

\* C10 happens: a valuation found the portfolio back at its peak after an
\* earlier valuation had found a drawdown
C10_Witness ==
  /\ portfolio.drawdown = Zero
  /\ RGt(portfolio.maxDrawdown, Zero)
  /\ attempts = <<>>
  /\ Len(pushed) > 0

FillApplied(a) ==
  IF a.type = "BUY"
  THEN /\ a.after.balance = RSub(a.before.balance, RMul(a.price, a.amount))
       /\ a.after.positions[a.pair].held
       /\ a.after.positions[a.pair].amount =
            RAdd(a.before.positions[a.pair].amount, a.amount)
  ELSE /\ a.after.balance = RAdd(a.before.balance, RMul(a.price, a.amount))
       /\ a.before.positions[a.pair].held
       /\ a.after.positions[a.pair].amount =
            IF a.after.positions[a.pair].held
            THEN RSub(a.before.positions[a.pair].amount, a.amount)
            ELSE Zero

\* the entries of the attempts made, in their order
EntriesOf(made) == [i \in 1..Len(made) |-> made[i].entry]

\* C12: every trade attempt appends exactly one entry to the trade log; the
\* entry carries the attempt's pair, side, executed price and amount, its
\* status is EXECUTED if and only if the ledger applied the fill and FAILED
\* otherwise, and a FAILED attempt leaves the whole ledger as it was.
C12_OneEntryPerAttempt ==
  [][(nOps' # nOps /\ attempts' # <<>>) =>
       /\ pushed' = pushed \o EntriesOf(attempts')
       /\ logs' = LastOf(logs \o EntriesOf(attempts'), MaxLogs)
       /\ \A i \in 1..Len(attempts') :
            /\ attempts'[i].entry.pair = attempts'[i].pair
            /\ attempts'[i].entry.type = attempts'[i].type
            /\ attempts'[i].entry.price = attempts'[i].price
            /\ attempts'[i].entry.amount = attempts'[i].amount
            /\ attempts'[i].entry.status \in {"EXECUTED", "FAILED"}
            /\ attempts'[i].entry.status = "EXECUTED" <=> FillApplied(attempts'[i])
            /\ attempts'[i].entry.status = "FAILED" =>
                 attempts'[i].after = attempts'[i].before
       /\ portfolio' = attempts'[Len(attempts')].after]_vars

\* C12 happens: a failed attempt was logged after a fill
C12_Witness ==
  /\ attempts # <<>>
  /\ attempts[1].entry.status = "FAILED"
  /\ attempts[1].after = attempts[1].before
  /\ Len(pushed) >= 2
  /\ pushed[Len(pushed) - 1].status = "EXECUTED"
  /\ pushed[Len(pushed)] = attempts[1].entry

\* the value at the snapshot's prices of the held pairs of S
RECURSIVE ValueOfHeld(_, _, _)
ValueWith(pf, md, S, p) ==
  RAdd(RMul(pf.positions[p].amount, R(md.last[p])), ValueOfHeld(pf, md, S \ {p}))
ValueOfHeld(pf, md, S) ==
  IF S = {} THEN Zero ELSE ValueWith(pf, md, S, CHOOSE p \in S : TRUE)

\* balance + sum over the held pairs with a price of amount x price
SnapshotEquity(pf, md) ==
  RAdd(pf.balance,
       ValueOfHeld(pf, md, {p \in LedgerPairs : pf.positions[p].held /\ HasPrice(md, p)}))

\* currentValue - targetValue of a target pair with a price
OverTarget(pf, md, p) ==
  RSub(IF pf.positions[p].held THEN RMul(pf.positions[p].amount, R(md.last[p]))
       ELSE Zero,
       RMul(SnapshotEquity(pf, md), pf.targetAllocations[p]))

\* |currentValue - targetValue| / currentEquity > 5%
OffTarget(pf, md, p) ==
  RGt(RAbs(OverTarget(pf, md, p)), RMul(RebalanceThreshold, SnapshotEquity(pf, md)))

\* the plan holds an order for the pair
Ordered(plan, p) == \E i \in 1..Len(plan) : plan[i].pair = p

\* the plan is the one the snapshot and the ledger call for
PlanAsSpecified(pf, md, plan) ==
  /\ \A i \in 1..Len(plan) :
       /\ plan[i].pair \in DOMAIN pf.targetAllocations
       /\ HasPrice(md, plan[i].pair)
       /\ OffTarget(pf, md, plan[i].pair)
       /\ plan[i].price = md.last[plan[i].pair]
       /\ IF RGt(OverTarget(pf, md, plan[i].pair), Zero)
          THEN /\ plan[i].action = "SELL"
               /\ plan[i].amount =
                    RDiv(OverTarget(pf, md, plan[i].pair), R(plan[i].price))
          ELSE /\ plan[i].action = "BUY"
               /\ plan[i].amount =
                    RDiv(RNeg(OverTarget(pf, md, plan[i].pair)), R(plan[i].price))
               /\ RGe(pf.balance, RNeg(OverTarget(pf, md, plan[i].pair)))
       /\ \A j \in 1..Len(plan) : plan[j].pair = plan[i].pair => j = i
  /\ \A p \in DOMAIN pf.targetAllocations :
       (/\ HasPrice(md, p)
        /\ OffTarget(pf, md, p)
        /\ \/ RGt(OverTarget(pf, md, p), Zero)
           \/ RGe(pf.balance, RNeg(OverTarget(pf, md, p))))
       => Ordered(plan, p)

\* C13: the plan holds, for each target pair with a price in the snapshot,
\* one order exactly when |currentValue - targetValue| / currentEquity > 5%
\* and the pair is over its target or the balance covers the deficit: a SELL
\* of (currentValue - targetValue) / price over target, else a BUY of
\* (targetValue - currentValue) / price; a pair with no price gets no order.
C13_RebalancePlan ==
  [][(called'.op = "checkRebalance" /\ nOps' # nOps) =>
       PlanAsSpecified(portfolio, called'.args[1], called'.ret[1])]_vars

\* C13 happens: the plan sold a pair over its target, left out a pair under
\* its target whose deficit the balance did not cover, and left out a pair
\* within 5% of its target
C13_Witness ==
  /\ called.op = "checkRebalance"
  /\ attempts # <<>>
  /\ \E i \in 1..Len(called.ret[1]) : called.ret[1][i].action = "SELL"
  /\ \E p \in PairSet :
       /\ ~Ordered(called.ret[1], p)
       /\ HasPrice(called.args[1], p)
       /\ OffTarget(attempts[1].before, called.args[1], p)
  /\ \E p \in PairSet :
       /\ ~Ordered(called.ret[1], p)
       /\ HasPrice(called.args[1], p)
       /\ ~OffTarget(attempts[1].before, called.args[1], p)
       /\ OverTarget(attempts[1].before, called.args[1], p) # Zero

\* the smaller of two numbers
Smaller(a, b) == IF RLt(b, a) THEN b ELSE a

\* the size the sizing rule gives: the risk size (balance x 1%) / (price x 2%),
\* at most (balance x 15%) / price, halved for a new pair beside five held
SizeAsSpecified(pf, pair, price) ==
  RMul(Smaller(RDiv(RMul(pf.balance, Rat(1, 100)), RMul(R(price), Rat(2, 100))),
               RDiv(RMul(pf.balance, Rat(15, 100)), R(price))),
       IF Cardinality({p \in LedgerPairs : pf.positions[p].held}) >= 5
          /\ ~pf.positions[pair].held
       THEN Rat(1, 2) ELSE R(1))

\* C14: calculatePositionSize(pair, price) returns (balance x 1%) / (price x
\* 2%), capped so that size x price <= balance x 15%, and then halved exactly
\* when five or more pairs are held and the pair is not one of them; the
\* result is a function of the ledger, the pair and the price only.
C14_PositionSize ==
  [][(called'.op = "calculatePositionSize" /\ nOps' # nOps) =>
       /\ called'.ret[1] = SizeAsSpecified(portfolio, called'.args[1], called'.args[2])
       /\ called'.ret[1] = calculatePositionSize(portfolio, called'.args[1],
                                                 called'.args[2])
       /\ RLe(RMul(called'.ret[1], R(called'.args[2])),
              RMul(portfolio.balance, Rat(15, 100)))]_vars

\* C14 happens: a BUY of half the capped size opened a sixth pair
C14_Witness ==
  /\ called.op = "calculatePositionSize"
  /\ attempts # <<>>
  /\ attempts[1].ok /\ attempts[1].type = "BUY"
  /\ Cardinality(Held(attempts[1].before)) = 5
  /\ ~attempts[1].before.positions[called.args[1]].held
  /\ portfolio.positions[called.args[1]].held
  /\ RMul(RMul(called.ret[1], R(2)), R(called.args[2])) =
       RMul(attempts[1].before.balance, Rat(15, 100))

\* C15: the scheduler is HALTED after construction; for any sequence of
\* calls, start() leaves it RUNNING, stop() leaves it HALTED, and
\* toggleStatus() flips the state and returns the new state.
C15_StartStopToggle ==
  /\ ~isRunning
  /\ [][nCalls' # nCalls =>
          /\ isRunning' \in BOOLEAN
          /\ called'.op \in {"start", "stop", "toggleStatus"}
          /\ called'.op = "start" => isRunning'
          /\ called'.op = "stop" => ~isRunning'
          /\ called'.op = "toggleStatus" =>
               /\ isRunning' = ~isRunning
               /\ called'.ret = <<isRunning'>>]_vars

\* C15 happens: toggleStatus() started the engine, a tick was suspended, and
\* a second toggleStatus() halted the engine and returned false
C15_Witness ==
  /\ called.op = "toggleStatus"
  /\ called.ret = <<FALSE>>
  /\ ~isRunning
  /\ nCalls = 2
  /\ updateInterval = 1
  /\ inFlight > 0

\* C16: stop() cancels the recurring tick: from the return of stop() (called
\* directly, by toggleStatus() or by a tick that shuts down) until the next
\* start(), no interval timer is scheduled, whatever calls came before.
C16_StopCancelsTimer == ~isRunning => intervals = {}

\* C17: an error thrown in a tick is caught in the tick: it raises a
\* WARNING alert and does not halt the scheduler (unless the tick itself
\* shut down, the engine runs on and its timers stay scheduled, so that the
\* next tick runs); no error escapes the tick.
C17_TickFailureCaught ==
  [][(nFails' # nFails) =>
       /\ called'.op = "tick"
       /\ "threw" \in called'.end
       /\ alerts' # <<>>
       /\ alerts'[Len(alerts')] = [type |-> "SYSTEM", severity |-> "WARNING"]
       /\ "halted" \notin called'.end =>
            /\ isRunning' = isRunning
            /\ intervals' = intervals
            /\ updateInterval' = updateInterval
            /\ isConnected' = isConnected]_vars

\* C17 happens: after a tick whose broadcast threw, the engine ran on (it
\* was started once and never stopped) and a later tick went through its
\* pipeline and broadcast the state with the alert of the error
C17_Witness ==
  /\ nFails = 1
  /\ nCalls = 1
  /\ isRunning /\ intervals # {}
  /\ called.op = "tick" /\ called.end = {}
  /\ sent # <<>>
  /\ sent[1].isRunning
  /\ \E i \in 1..Len(sent[1].alerts) :
       sent[1].alerts[i] = [type |-> "SYSTEM", severity |-> "WARNING"]

\* the step is a tick that ran its pipeline (it was not idle or suspended)
TickRan ==
  /\ nTicks' # nTicks \/ inFlight' # inFlight
  /\ called'.op = "tick"
  /\ called'.end \cap {"idle", "suspended"} = {}

\* C18: a tick whose valuation finds drawdown >= 10% raises a CRITICAL alert,
\* halts the scheduler (its timer cancelled, the exchange disconnected),
\* executes and logs no trade, and broadcasts the final state with
\* isRunning = false.
C18_ShutdownTick ==
  [][(TickRan /\ RGe(portfolio'.drawdown, maxDrawdownLimit)) =>
       /\ "halted" \in called'.end
       /\ Len(alerts') >= 2
       /\ alerts'[Len(alerts') - 1] = [type |-> "RISK", severity |-> "CRITICAL"]
       /\ alerts'[Len(alerts')] = [type |-> "SYSTEM", severity |-> "WARNING"]
       /\ ~isRunning'
       /\ updateInterval' \notin intervals'
       /\ ~isConnected'
       /\ attempts' = <<>>
       /\ pushed' = pushed /\ logs' = logs
       /\ portfolio'.balance = portfolio.balance
       /\ portfolio'.positions = portfolio.positions
       /\ sent' = <<StateUpdate(FALSE, portfolio', latestData', logs', alerts')>>]_vars

\* C18 happens: a tick shut the engine down while positions were held and
\* broadcast the halted state with the CRITICAL alert
C18_Witness ==
  /\ called.op = "tick" /\ "halted" \in called.end
  /\ RGe(portfolio.drawdown, maxDrawdownLimit)
  /\ ~isRunning
  /\ pushed # <<>>
  /\ sent # <<>>
  /\ ~sent[1].isRunning
  /\ sent[1].portfolio = portfolio
  /\ \E i \in 1..Len(sent[1].alerts) :
       sent[1].alerts[i] = [type |-> "RISK", severity |-> "CRITICAL"]

\* the balance after the fills among the entries 1..i of the history: each
\* BUY fill debits executedPrice x amount, each SELL fill credits it
RECURSIVE BalanceAt(_)
BalanceAt(i) ==
  IF i = 0 THEN R(InitialBalance)
  ELSE IF pushed[i].status = "EXECUTED" /\ pushed[i].type = "BUY"
       THEN RSub(BalanceAt(i - 1), RMul(pushed[i].price, pushed[i].amount))
  ELSE IF pushed[i].status = "EXECUTED" /\ pushed[i].type = "SELL"
       THEN RAdd(BalanceAt(i - 1), RMul(pushed[i].price, pushed[i].amount))
  ELSE BalanceAt(i - 1)

\* what getPortfolio() returns shows the pair's fills applied in full
PositionApplied(pf, pair) ==
  IF pf.positions[pair].held
  THEN pf.positions[pair].amount = NetAmount(pair, Len(pushed))
  ELSE RLe(NetAmount(pair, Len(pushed)), Epsilon)

\* C19: whenever a status, portfolio or log query can run, a tick suspended
\* in its fetch included, what it reads is a consistent snapshot: the balance
\* is the initial balance after the debits and credits of the logged fills, every
\* position is the net of the logged fills on its pair, and the log queried
\* ends with the entries of those fills; no trade is seen partially applied.
C19_ConsistentSnapshot ==
  /\ portfolio.balance = BalanceAt(Len(pushed))
  /\ \A pair \in PairSet : PositionApplied(portfolio, pair)
  /\ ~portfolio.positions[OtherPair].held
  /\ getLogs(logs) = LastOf(pushed, 100)
  /\ (isRunning => updateInterval \in intervals)

\* C19 happens: a tick is suspended in its fetch while the ledger holds a
\* position from logged fills, a BUY and a SELL among them
C19_Witness ==
  /\ inFlight > 0
  /\ isRunning
  /\ Held(portfolio) # {}
  /\ \E i, j \in 1..Len(pushed) :
       /\ pushed[i].status = "EXECUTED" /\ pushed[i].type = "BUY"
       /\ pushed[j].status = "EXECUTED" /\ pushed[j].type = "SELL"

\* balance plus, over the held pairs from index i on, amount x the price of
\* the pair in the snapshot, a pair without a price there counting at its
\* average entry price
RECURSIVE EquityAtEntryFrom(_, _, _)
EquityAtEntryFrom(pf, md, i) ==
  IF i > Len(LedgerKeys) THEN pf.balance
  ELSE IF pf.positions[LedgerKeys[i]].held
       THEN RAdd(EquityAtEntryFrom(pf, md, i + 1),
                 RMul(pf.positions[LedgerKeys[i]].amount,
                      IF HasPrice(md, LedgerKeys[i])
                      THEN R(md.last[LedgerKeys[i]])
                      ELSE pf.positions[LedgerKeys[i]].avgEntryPrice))
       ELSE EquityAtEntryFrom(pf, md, i + 1)

\* C20: a valuation computes currentEquity = balance + the sum over the held
\* positions of amount x price, a position whose pair has no price in the
\* snapshot being valued at its average entry price, and derives drawdown and
\* pnl from that equity.
C20_ValuationAtEntryPrice ==
  [][(nOps' # nOps /\ pushed' = pushed) =>
       \E eq \in {EquityAtEntryFrom(portfolio, latestData', 1)} :
          /\ portfolio'.pnl = RSub(eq, portfolio.initialBalance)
          /\ portfolio'.drawdown =
               DrawdownFrom(RMax(portfolio.initialBalance, eq), eq)]_vars

\* the realized PnL of the SELL fills among the attempts 1..i of a step
RECURSIVE RealizedSum(_, _)
RealizedSum(made, i) ==
  IF i = 0 THEN Zero
  ELSE IF made[i].type = "SELL" /\ made[i].ok
       THEN RAdd(RealizedSum(made, i - 1), RealizedPnl(made[i]))
       ELSE RealizedSum(made, i - 1)

\* C21: in every reachable state pnl is the cumulative realized profit/loss,
\* the sum of (executedPrice - avgEntryPrice) x amount over the successful
\* SELLs so far: it is 0 after construction, every step adds to it the
\* realized PnL of its SELL fills, and a valuation leaves it as it is.
C21_PnlIsRealized ==
  [][portfolio'.pnl =
       RAdd(portfolio.pnl,
            IF pushed' = pushed THEN Zero
            ELSE RealizedSum(attempts', Len(attempts')))]_vars

\* C22: the broadcast of each tick carries the 10 most recent log entries and
\* the 5 most recent alerts and goes to every open subscriber; a subscriber
\* that attaches is sent at once the 50 most recent log entries and the 20
\* most recent alerts; a log query returns the 100 most recent entries at
\* most; all in insertion order.
C22_FeedWindows ==
  [][/\ (nTicks' # nTicks /\ isRunning) =>
          (/\ Len(sent') = 1
           /\ sent'[1].recentLogs = LastOf(pushed', 10)
           /\ sent'[1].alerts = LastOf(alerts', 5)
           /\ sentTo' = ready)
     /\ (clients' # clients /\ clients \subseteq clients') =>
          (/\ called'.op = "connection"
           /\ clients' = clients \cup {called'.args[1]}
           /\ called'.args[1] \in ready'
           /\ called'.ret[1].recentLogs = LastOf(pushed, 50)
           /\ called'.ret[1].alerts = LastOf(alerts, 20))
     /\ (called' # called /\ called'.op = "getLogs") =>
          called'.ret[1] = LastOf(pushed', 100)]_vars

\* C22 happens: with more than 100 entries logged and more than 20 alerts
\* kept, a tick that logged a new entry broadcast to the open subscriber and
\* not to the one that is closing
C22_Witness ==
  /\ Len(pushed) > 100 /\ Len(alerts) > 20
  /\ called.op = "tick" /\ called.end = {}
  /\ attempts # <<>>
  /\ ready # {} /\ clients \ ready # {}
  /\ sentTo = ready
  /\ Len(sent[1].recentLogs) = 10 /\ Len(sent[1].alerts) = 5
  /\ sent[1].recentLogs[10] # sent[1].recentLogs[9]

\* C23: the pnl field of a trade log entry is present only on the entries of
\* successful SELLs, and its value is the realized PnL of that sell,
\* (executedPrice - avgEntryPrice before the sell) x amount, also when the
\* sell closes the whole position.
C23_LoggedPnl ==
  \A i \in Attempted :
     attempts[i].entry.pnl =
       IF attempts[i].type = "SELL" /\ attempts[i].ok
       THEN RealizedPnl(attempts[i])
       ELSE NoPnl

\* C24: the orders of one rebalance plan are applied one at a time, in the
\* order of the plan, each on the ledger the earlier ones left; the funds are
\* checked again when an order is applied: a planned BUY whose executed cost
\* exceeds the balance then left is logged FAILED and changes nothing, and
\* the orders after it are applied all the same.
C24_RebalanceOneAtATime ==
  [][(nOps' # nOps /\ called'.op = "checkRebalance") =>
       \E plan \in {called'.ret[1]} :
          /\ Len(attempts') = Len(plan)
          /\ pushed' = pushed \o [i \in 1..Len(plan) |-> attempts'[i].entry]
          /\ portfolio' = IF Len(plan) = 0 THEN portfolio
                         ELSE attempts'[Len(plan)].after
          /\ \A i \in 1..Len(plan) :
               /\ attempts'[i].pair = plan[i].pair
               /\ attempts'[i].type = plan[i].action
               /\ attempts'[i].amount = plan[i].amount
               /\ attempts'[i].quoted = plan[i].price
               /\ attempts'[i].before =
                    IF i = 1 THEN portfolio ELSE attempts'[i - 1].after
               /\ attempts'[i].type = "BUY" =>
                    /\ attempts'[i].ok =
                         RLe(RMul(attempts'[i].price, attempts'[i].amount),
                             attempts'[i].before.balance)
                    /\ ~attempts'[i].ok =>
                         /\ attempts'[i].after = attempts'[i].before
                         /\ attempts'[i].entry.status = "FAILED"]_vars

\* C24 happens: a planned BUY was refused for the funds the earlier orders of
\* the plan had left, and a later order of the same plan was filled
C24_Witness ==
  /\ called.op = "checkRebalance"
  /\ \E i, j, k \in 1..Len(attempts) :
       /\ i < j /\ j < k
       /\ attempts[i].ok /\ attempts[i].type = "BUY"
       /\ ~attempts[j].ok /\ attempts[j].type = "BUY"
       /\ RLe(RMul(attempts[j].price, attempts[j].amount), attempts[1].before.balance)
       /\ attempts[k].ok

C26_TickOrder ==
  [][(TickRan /\ "halted" \notin called'.end) =>
       \E valued \in {updatePrices(portfolio, latestData')} :
       \E plan \in {checkRebalance(valued, latestData')} :
          /\ RLt(valued.drawdown, maxDrawdownLimit)
          /\ Len(attempts') >= Len(plan)
          /\ \A i \in 1..Len(attempts') :
               /\ attempts'[i].before =
                    IF i = 1 THEN valued ELSE attempts'[i - 1].after
               /\ attempts'[i].isRebalance = (i <= Len(plan))
               /\ attempts'[i].quoted = latestData'.last[attempts'[i].pair]
               /\ attempts'[i].amount =
                    IF i <= Len(plan) THEN plan[i].amount
                    ELSE calculatePositionSize(attempts'[i].before,
                                               attempts'[i].pair, attempts'[i].quoted)
               /\ i <= Len(plan) => /\ attempts'[i].pair = plan[i].pair
                                     /\ attempts'[i].type = plan[i].action
          /\ portfolio' = IF Len(attempts') = 0 THEN valued
                         ELSE attempts'[Len(attempts')].after
          /\ pushed' = pushed \o [i \in 1..Len(attempts') |-> attempts'[i].entry]
          /\ sent' = <<StateUpdate(isRunning', portfolio', latestData', logs', alerts')>>
          /\ sent'[1].recentLogs = LastOf(pushed', 10)]_vars

\* C26 happens: a tick filled a rebalance order and then two signal orders,
\* the second one sized differently from what the ledger before the first
\* one gives, and broadcast the ledger it left
C26_Witness ==
  /\ called.op = "tick" /\ called.end = {}
  /\ \E i, j, k \in 1..Len(attempts) :
       /\ i < j /\ j < k
       /\ attempts[i].isRebalance /\ attempts[i].ok
       /\ ~attempts[j].isRebalance /\ attempts[j].ok
       /\ ~attempts[k].isRebalance /\ attempts[k].ok
       /\ attempts[k].amount #
            calculatePositionSize(attempts[j].before, attempts[k].pair,
                                  attempts[k].quoted)
  /\ sent[1].portfolio = portfolio
  /\ Len(sent[1].recentLogs) = Len(attempts)

\* C27: the executed price of every trade attempt is never better for the
\* trader than the quoted price and is less than 0.1% away from it: for a BUY
\* price <= executedPrice < price x 1.001, for a SELL
\* price x 0.999 < executedPrice <= price.
C27_SlippageBounds ==
  \A i \in Attempted :
     /\ attempts[i].entry.price = attempts[i].price
     /\ IF attempts[i].type = "BUY"
        THEN /\ RLe(R(attempts[i].quoted), attempts[i].price)
             /\ RLt(attempts[i].price, RMul(R(attempts[i].quoted), Rat(1001, 1000)))
        ELSE /\ RLt(RMul(R(attempts[i].quoted), Rat(999, 1000)), attempts[i].price)
             /\ RLe(attempts[i].price, R(attempts[i].quoted))

\* C27 happens: a SELL was attempted at a price below the quoted one
C27_Witness ==
  \E i \in Attempted :
     /\ attempts[i].type = "SELL"
     /\ attempts[i].ok
     /\ RLt(attempts[i].price, R(attempts[i].quoted))

\* C28: while the engine is halted by a stop() or toggleStatus() call from
\* outside (not by the fail-safe) and until the next start(), no step
\* executes or logs a trade and none writes the ledger, the return of a tick
\* that was awaiting its market data when stop() was called included.
C28_NoTradeAfterStop ==
  [][(~isRunning /\ ~latch /\ ~isRunning') =>
       /\ portfolio' = portfolio
       /\ pushed' = pushed
       /\ logs' = logs]_vars

\* C29: every SELL order of a rebalance plan is for a pair that is held and
\* for no more than the amount held, and when the plan is applied the SELL
\* is filled and logged EXECUTED, never FAILED.
C29_RebalanceSellFilled ==
  [][(nOps' # nOps /\ called'.op = "checkRebalance") =>
       \A i \in 1..Len(called'.ret[1]) :
          called'.ret[1][i].action = "SELL" =>
            /\ portfolio.positions[called'.ret[1][i].pair].held
            /\ RLe(called'.ret[1][i].amount,
                   portfolio.positions[called'.ret[1][i].pair].amount)
            /\ i <= Len(attempts')
            /\ attempts'[i].type = "SELL"
            /\ attempts'[i].pair = called'.ret[1][i].pair
            /\ attempts'[i].ok
            /\ attempts'[i].entry.status = "EXECUTED"]_vars

\* C29 happens: a plan with a SELL and a BUY was applied, the SELL at a
\* slipped price and for less than was held
C29_Witness ==
  /\ called.op = "checkRebalance"
  /\ \E i, j \in 1..Len(attempts) :
       /\ attempts[i].type = "SELL" /\ attempts[i].isRebalance /\ attempts[i].ok
       /\ RLt(attempts[i].price, R(attempts[i].quoted))
       /\ attempts[i].after.positions[attempts[i].pair].held
       /\ attempts[j].type = "BUY" /\ attempts[j].isRebalance

\* balance plus amount x avgEntryPrice over the held pairs from index i on
RECURSIVE CostBasisFrom(_, _)
CostBasisFrom(pf, i) ==
  IF i > Len(LedgerKeys) THEN pf.balance
  ELSE IF pf.positions[LedgerKeys[i]].held
       THEN RAdd(CostBasisFrom(pf, i + 1),
                 RMul(pf.positions[LedgerKeys[i]].amount,
                      pf.positions[LedgerKeys[i]].avgEntryPrice))
       ELSE CostBasisFrom(pf, i + 1)

\* the residual cost basis dropped by the attempts 1..i of a step: for each
\* SELL fill that removes its position at or below epsilon, what was left of
\* the position x its avgEntryPrice
RECURSIVE ResidualSum(_, _)
ResidualSum(made, i) ==
  IF i = 0 THEN Zero
  ELSE IF /\ made[i].type = "SELL" /\ made[i].ok
          /\ ~made[i].after.positions[made[i].pair].held
       THEN RAdd(ResidualSum(made, i - 1),
                 RMul(RSub(made[i].before.positions[made[i].pair].amount,
                           made[i].amount),
                      made[i].before.positions[made[i].pair].avgEntryPrice))
       ELSE ResidualSum(made, i - 1)

\* C30: cost-basis conservation: balance + the sum over the held positions
\* of amount x avgEntryPrice is initialBalance after construction; a
\* successful BUY and a failed attempt leave it unchanged, a successful SELL
\* changes it by exactly its realized PnL, less the cost basis of what was
\* left of a position removed at or below epsilon; a SELL never changes the
\* avgEntryPrice of the position that remains.
C30_CostBasisConserved ==
  /\ [](attempts = <<>> /\ pushed = <<>> =>
          CostBasisFrom(portfolio, 1) = portfolio.initialBalance)
  /\ [][/\ CostBasisFrom(portfolio', 1) =
             RSub(RAdd(CostBasisFrom(portfolio, 1),
                       IF pushed' = pushed THEN Zero
                       ELSE RealizedSum(attempts', Len(attempts'))),
                  IF pushed' = pushed THEN Zero
                  ELSE ResidualSum(attempts', Len(attempts')))
        /\ pushed' # pushed =>
             \A i \in 1..Len(attempts') :
                (/\ attempts'[i].type = "SELL" /\ attempts'[i].ok
                 /\ attempts'[i].after.positions[attempts'[i].pair].held) =>
                  attempts'[i].after.positions[attempts'[i].pair].avgEntryPrice =
                    attempts'[i].before.positions[attempts'[i].pair].avgEntryPrice]_vars

\* C30 happens: after BUY fills at two prices, a SELL of part of the position
\* realized a PnL other than 0 and left the rest held
C30_Witness ==
  /\ CostBasisFrom(portfolio, 1) # portfolio.initialBalance
  /\ \E i, j \in 1..Len(pushed) :
       /\ i < j
       /\ pushed[i].type = "BUY" /\ pushed[i].status = "EXECUTED"
       /\ pushed[j].type = "BUY" /\ pushed[j].status = "EXECUTED"
       /\ pushed[i].price # pushed[j].price
  /\ \E k \in Attempted :
       /\ attempts[k].type = "SELL" /\ attempts[k].ok
       /\ attempts[k].after.positions[attempts[k].pair].held
       /\ RealizedPnl(attempts[k]) # Zero

\* C31: valuation and planning are read-only on holdings: the ledger that a
\* tick's updatePrices and checkRebalance leave (the one its first trade
\* attempt finds, or the one the tick ends with when it attempts no trade)
\* differs from the ledger before the tick in drawdown, maxDrawdown and pnl
\* only, and is exactly the valuation's result, checkRebalance adding no
\* change; a tick without a trade attempt leaves the log as it is; and no
\* step of any operation, nor any trade attempt, changes initialBalance or
\* targetAllocations.
C31_ValuationAndPlanningReadOnly ==
  [][/\ portfolio'.initialBalance = portfolio.initialBalance
     /\ portfolio'.targetAllocations = portfolio.targetAllocations
     /\ attempts' # attempts =>
          \A i \in 1..Len(attempts') :
             /\ attempts'[i].after.initialBalance = portfolio.initialBalance
             /\ attempts'[i].after.targetAllocations = portfolio.targetAllocations
     /\ TickRan =>
          \E seen \in {IF attempts' = <<>> THEN portfolio'
                       ELSE attempts'[1].before} :
             /\ [seen EXCEPT !.drawdown = portfolio.drawdown,
                             !.maxDrawdown = portfolio.maxDrawdown,
                             !.pnl = portfolio.pnl] = portfolio
             /\ seen = updatePrices(portfolio, latestData')
             /\ attempts' = <<>> => pushed' = pushed /\ logs' = logs]_vars

\* C31 happens: a tick valued a ledger with held positions, found a
\* drawdown, and went on to a trade attempt on the ledger so valued, the
\* initial balance and the target allocations being those of construction
C31_Witness ==
  /\ called.op = "tick"
  /\ attempts # <<>>
  /\ Held(attempts[1].before) # {}
  /\ RGt(attempts[1].before.drawdown, Zero)
  /\ attempts[1].before.pnl # Zero
  /\ attempts[1].before.balance = BalanceAt(Len(pushed) - Len(attempts))
  /\ portfolio.initialBalance = R(InitialBalance)
  /\ portfolio.targetAllocations = TargetPct

====
